---- MODULE Spec2Model ----
(***************************************************************************)
(* A model of the reserve accounting and risk engine of the token-lending  *)
(* program: token-lending/sdk/src/state/reserve.rs and                     *)
(* token-lending/sdk/src/offchain_utils.rs, with the rate limiter, the     *)
(* obligation and the market instructions they are used with.              *)
(*                                                                         *)
(* Fixed point.  The program's Decimal and Rate are integers scaled by     *)
(* WAD = 10^18.  TLC's integers are 32 bits wide, so the model keeps the   *)
(* representation (a scaled integer, every operation rounding the way the  *)
(* program rounds) at the scale WAD = 1000, and SLOTS_PER_YEAR at 10 so    *)
(* that a per-slot interest rate is not rounded to zero at that scale.     *)
(* u64 amounts are cut at MaxU64, and checked_add fails above it.          *)
(***************************************************************************)
EXTENDS Integers, Sequences, FiniteSets, TLC

VARIABLES
    reserve,      \* Reserve: liquidity, collateral and last_update fields
    config,       \* ReserveConfig of that reserve
    last,         \* the last operation: its name, its Result, the state a failed
                  \* call started from, and the number of operations so far
    limiter,      \* RateLimiter: config and rolling state
    clock,        \* the current slot
    accepted,     \* history: quantity the rate limiter accepted at each slot
    market,       \* the reserves of a lending market and one obligation on it
    out           \* input and result of a pure function under evaluation

vars == <<reserve, config, last, limiter, clock, accepted, market, out>>

----------------------------------------------------------------------------
(* Bounds of the model *)

MaxU64 == 6
MaxSlot == 2
MaxAmount == 2
MaxOps == 5

----------------------------------------------------------------------------
(* math: Decimal and Rate *)

WAD == 1000
HALF_WAD == WAD \div 2
PERCENT_SCALER == WAD \div 100
SLOTS_PER_YEAR == 10
INITIAL_COLLATERAL_RATE == WAD

Ok(v) == [ok |-> TRUE, v |-> v]
Err(e) == [ok |-> FALSE, v |-> e]

Min(a, b) == IF a <= b THEN a ELSE b
Max(a, b) == IF a >= b THEN a ELSE b

\* Decimal::from(u64)
Dec(n) == n * WAD
\* Decimal::try_mul(Decimal) and Decimal::try_mul(Rate): self.0 * rhs.0 / WAD,
\* the product taken in two parts to stay inside TLC's integers
DecMul(a, b) == (a \div WAD) * b + ((a % WAD) * b) \div WAD
\* Decimal::try_div(Decimal): self.0 * WAD / rhs.0, MathOverflow on a zero divisor
DecDiv(a, b) ==
    IF b = 0 THEN Err("MathOverflow")
    ELSE Ok((a \div b) * WAD + ((a % b) * WAD) \div b)
\* try_floor_u64, try_ceil_u64, try_round_u64 (half up)
Floor(a) == a \div WAD
Ceil(a) == (a + WAD - 1) \div WAD
Round(a) == (a + HALF_WAD) \div WAD
\* Rate::from_percent, Decimal::from_percent, Rate::from_percent_u64
FromPercent(p) == p * PERCENT_SCALER
\* Decimal::from_deca_bps: one deca bp is 10 bps, a thousandth
FromDecaBps(d) == (d * WAD) \div 1000
\* Decimal::from_bps
FromBps(b) == (b * WAD) \div 10000

\* Rate::try_pow: binary exponentiation, every product rounded down
RECURSIVE PowLoop(_, _, _)
PowLoop(base, exp, ret) ==
    IF exp = 0 THEN ret
    ELSE LET e2 == exp \div 2
             b2 == DecMul(base, base)
         IN PowLoop(b2, e2, IF e2 % 2 # 0 THEN DecMul(ret, b2) ELSE ret)

RatePow(base, exp) == PowLoop(base, exp, IF exp % 2 # 0 THEN base ELSE WAD)

----------------------------------------------------------------------------
(* ReserveLiquidity and ReserveCollateral *)

\* ReserveLiquidity::new, ReserveCollateral::new, LastUpdate::new
NewReserve ==
    [ available_amount |-> 0,
      borrowed_amount_wads |-> 0,
      cumulative_borrow_rate_wads |-> WAD,
      accumulated_protocol_fees_wads |-> 0,
      mint_total_supply |-> 0,
      last_update_slot |-> 0 ]

\* ReserveLiquidity::total_supply: try_sub fails below zero
total_supply(r) ==
    LET s == Dec(r.available_amount) + r.borrowed_amount_wads
    IN IF s < r.accumulated_protocol_fees_wads THEN Err("MathOverflow")
       ELSE Ok(s - r.accumulated_protocol_fees_wads)

\* ReserveCollateral::exchange_rate
exchange_rate(r, total_liquidity) ==
    IF r.mint_total_supply = 0 \/ total_liquidity = 0
    THEN Ok(INITIAL_COLLATERAL_RATE)
    ELSE DecDiv(Dec(r.mint_total_supply), total_liquidity)

\* Reserve::collateral_exchange_rate
collateral_exchange_rate(r) ==
    LET t == total_supply(r)
    IN IF ~t.ok THEN t ELSE exchange_rate(r, t.v)

\* CollateralExchangeRate::liquidity_to_collateral
liquidity_to_collateral(rate, liquidity_amount) ==
    Ok(Floor(DecMul(Dec(liquidity_amount), rate)))

\* CollateralExchangeRate::collateral_to_liquidity
collateral_to_liquidity(rate, collateral_amount) ==
    LET d == DecDiv(Dec(collateral_amount), rate)
    IN IF ~d.ok THEN d ELSE Ok(Floor(d.v))

\* The result of a mutating method: the Result and the reserve as the call left it
Res(ok, r, v) == [ok |-> ok, r |-> r, v |-> v]

\* Reserve::deposit_liquidity with ReserveLiquidity::deposit and ReserveCollateral::mint
deposit_liquidity(r, liquidity_amount) ==
    LET rate == collateral_exchange_rate(r)
    IN IF ~rate.ok THEN Res(FALSE, r, rate.v) ELSE
       LET collateral_amount == liquidity_to_collateral(rate.v, liquidity_amount).v
       IN IF r.available_amount + liquidity_amount > MaxU64
          THEN Res(FALSE, r, "MathOverflow") ELSE
          LET r1 == [r EXCEPT !.available_amount = @ + liquidity_amount]
          IN IF r1.mint_total_supply + collateral_amount > MaxU64
             THEN Res(FALSE, r1, "MathOverflow")
             ELSE Res(TRUE,
                      [r1 EXCEPT !.mint_total_supply = @ + collateral_amount],
                      collateral_amount)

\* Reserve::redeem_collateral with ReserveCollateral::burn and ReserveLiquidity::withdraw
redeem_collateral(r, collateral_amount) ==
    LET rate == collateral_exchange_rate(r)
    IN IF ~rate.ok THEN Res(FALSE, r, rate.v) ELSE
       LET liq == collateral_to_liquidity(rate.v, collateral_amount)
       IN IF ~liq.ok THEN Res(FALSE, r, liq.v) ELSE
          IF collateral_amount > r.mint_total_supply
          THEN Res(FALSE, r, "MathOverflow") ELSE
          LET r1 == [r EXCEPT !.mint_total_supply = @ - collateral_amount]
          IN IF liq.v > r1.available_amount
             THEN Res(FALSE, r1, "InsufficientLiquidity")
             ELSE Res(TRUE, [r1 EXCEPT !.available_amount = @ - liq.v], liq.v)

\* ReserveLiquidity::borrow
liquidity_borrow(r, borrow_decimal) ==
    LET borrow_amount == Floor(borrow_decimal)
    IN IF borrow_amount > r.available_amount
       THEN Res(FALSE, r, "InsufficientLiquidity")
       ELSE Res(TRUE,
                [r EXCEPT !.available_amount = @ - borrow_amount,
                          !.borrowed_amount_wads = @ + borrow_decimal],
                0)

\* ReserveLiquidity::repay
liquidity_repay(r, repay_amount, settle_amount) ==
    IF r.available_amount + repay_amount > MaxU64
    THEN Res(FALSE, r, "MathOverflow")
    ELSE Res(TRUE,
             [r EXCEPT !.available_amount = @ + repay_amount,
                       !.borrowed_amount_wads =
                            @ - Min(settle_amount, r.borrowed_amount_wads)],
             0)

\* forgive_debt that takes the forgiven amount out of the available liquidity too
forgive_debt_from_available(r, liquidity_amount) ==
    IF liquidity_amount > r.borrowed_amount_wads
    THEN Res(FALSE, r, "MathOverflow")
    ELSE Res(TRUE, [r EXCEPT !.borrowed_amount_wads = @ - liquidity_amount,
                             !.available_amount = @ - Floor(liquidity_amount)], 0)

\* ReserveLiquidity::forgive_debt
forgive_debt(r, liquidity_amount) ==
    IF liquidity_amount > r.borrowed_amount_wads
    THEN Res(FALSE, r, "MathOverflow")
    ELSE Res(TRUE, [r EXCEPT !.borrowed_amount_wads = @ - liquidity_amount], 0)

\* ReserveLiquidity::redeem_fees
redeem_fees(r, withdraw_amount) ==
    IF withdraw_amount > r.available_amount
    THEN Res(FALSE, r, "MathOverflow") ELSE
    LET r1 == [r EXCEPT !.available_amount = @ - withdraw_amount]
    IN IF Dec(withdraw_amount) > r1.accumulated_protocol_fees_wads
       THEN Res(FALSE, r1, "MathOverflow")
       ELSE Res(TRUE,
                [r1 EXCEPT !.accumulated_protocol_fees_wads = @ - Dec(withdraw_amount)],
                0)

\* Reserve::calculate_redeem_fees
calculate_redeem_fees(r) ==
    Min(r.available_amount, Floor(r.accumulated_protocol_fees_wads))

\* Reserve::calculate_repay
calculate_repay(amount_to_repay, borrowed_amount, is_max) ==
    LET settle_amount == IF is_max THEN borrowed_amount
                         ELSE Min(Dec(amount_to_repay), borrowed_amount)
    IN [settle_amount |-> settle_amount, repay_amount |-> Ceil(settle_amount)]

----------------------------------------------------------------------------
(* Utilization, the borrow-rate curve and interest *)

\* utilization_rate with the reserve's total supply (fees taken off) as divisor
utilization_rate_over_supply(r) ==
    LET t == total_supply(r)
    IN IF ~t.ok THEN t ELSE
       IF t.v = 0 \/ r.borrowed_amount_wads = 0 THEN Ok(0)
       ELSE DecDiv(r.borrowed_amount_wads, t.v)

\* utilization_rate without the early return on a total supply of zero
utilization_rate_no_guard(r) ==
    LET t == total_supply(r)
    IN IF ~t.ok THEN t ELSE
       IF r.borrowed_amount_wads = 0 THEN Ok(0)
       ELSE DecDiv(r.borrowed_amount_wads,
                   r.borrowed_amount_wads + Dec(r.available_amount))

\* ReserveLiquidity::utilization_rate
utilization_rate(r) ==
    LET t == total_supply(r)
    IN IF ~t.ok THEN t ELSE
       IF t.v = 0 \/ r.borrowed_amount_wads = 0 THEN Ok(0)
       ELSE DecDiv(r.borrowed_amount_wads,
                   r.borrowed_amount_wads + Dec(r.available_amount))

\* The three branches of Reserve::current_borrow_rate at utilization u
borrow_rate_at(u, c) ==
    LET optimal_utilization_rate == FromPercent(c.optimal_utilization_rate)
        max_utilization_rate == FromPercent(c.max_utilization_rate)
        min_rate == FromPercent(c.min_borrow_rate)
        optimal_borrow_rate == FromPercent(c.optimal_borrow_rate)
        max_borrow_rate == FromPercent(c.max_borrow_rate)
        super_max_borrow_rate == FromPercent(c.super_max_borrow_rate)
    IN IF u <= optimal_utilization_rate THEN
          IF optimal_utilization_rate = 0 THEN Ok(min_rate)
          ELSE IF c.optimal_borrow_rate < c.min_borrow_rate THEN Err("MathOverflow")
          ELSE LET normalized_rate == DecDiv(u, optimal_utilization_rate).v
                   rate_range == FromPercent(c.optimal_borrow_rate - c.min_borrow_rate)
               IN Ok(DecMul(normalized_rate, rate_range) + min_rate)
       ELSE IF u <= max_utilization_rate THEN
          IF max_borrow_rate < optimal_borrow_rate THEN Err("MathOverflow")
          ELSE LET weight == DecDiv(u - optimal_utilization_rate,
                                    max_utilization_rate - optimal_utilization_rate).v
                   rate_range == max_borrow_rate - optimal_borrow_rate
               IN Ok(DecMul(weight, rate_range) + optimal_borrow_rate)
       ELSE
          IF c.max_utilization_rate > 100 THEN Err("MathOverflow")
          ELSE LET weight == DecDiv(u - max_utilization_rate,
                                    FromPercent(100 - c.max_utilization_rate))
               IN IF ~weight.ok THEN weight
                  ELSE IF super_max_borrow_rate < max_borrow_rate THEN Err("MathOverflow")
                  ELSE Ok(DecMul(weight.v, super_max_borrow_rate - max_borrow_rate)
                          + max_borrow_rate)

\* current_borrow_rate with the first two branches ending at the next knee's rate
current_borrow_rate_steep(r, c) ==
    LET u == utilization_rate(r)
    IN IF ~u.ok THEN u
       ELSE borrow_rate_at(u.v, [c EXCEPT !.optimal_borrow_rate = c.max_borrow_rate])

\* Reserve::current_borrow_rate
current_borrow_rate(r, c) ==
    LET u == utilization_rate(r)
    IN IF ~u.ok THEN u ELSE borrow_rate_at(u.v, c)

\* compound_interest with the per-slot rate taken off one instead of added to it
compound_interest_discount(r, current_borrow_rate_, slots_elapsed, take_rate) ==
    LET slot_interest_rate == current_borrow_rate_ \div SLOTS_PER_YEAR
        compounded_interest_rate == RatePow(WAD - slot_interest_rate, slots_elapsed)
    IN Res(TRUE,
           [r EXCEPT !.cumulative_borrow_rate_wads =
                          DecMul(r.cumulative_borrow_rate_wads, compounded_interest_rate)],
           0)

\* ReserveLiquidity::compound_interest
compound_interest(r, current_borrow_rate_, slots_elapsed, take_rate) ==
    LET slot_interest_rate == current_borrow_rate_ \div SLOTS_PER_YEAR
        compounded_interest_rate == RatePow(WAD + slot_interest_rate, slots_elapsed)
        cumulative == DecMul(r.cumulative_borrow_rate_wads, compounded_interest_rate)
        grown == DecMul(r.borrowed_amount_wads, compounded_interest_rate)
        r1 == [r EXCEPT !.cumulative_borrow_rate_wads = cumulative]
    IN IF grown < r.borrowed_amount_wads THEN Res(FALSE, r1, "MathOverflow") ELSE
       LET net_new_debt == grown - r.borrowed_amount_wads
       IN Res(TRUE,
              [r1 EXCEPT !.accumulated_protocol_fees_wads =
                              DecMul(net_new_debt, take_rate) + @,
                         !.borrowed_amount_wads = @ + net_new_debt],
              0)

\* Reserve::accrue_interest with LastUpdate::slots_elapsed
accrue_interest(r, c, current_slot) ==
    IF current_slot < r.last_update_slot THEN Res(FALSE, r, "MathOverflow") ELSE
    LET slots_elapsed == current_slot - r.last_update_slot
    IN IF slots_elapsed > 0 THEN
          LET rate == current_borrow_rate(r, c)
          IN IF ~rate.ok THEN Res(FALSE, r, rate.v)
             ELSE compound_interest(r, rate.v, slots_elapsed,
                                    FromPercent(c.protocol_take_rate))
       ELSE Res(TRUE, r, 0)

\* offchain_refresh_reserve_interest: accrue, then last_update = (slot, not stale)
offchain_refresh_reserve_interest(r, c, slot) ==
    LET a == accrue_interest(r, c, slot)
    IN IF ~a.ok THEN a ELSE Res(TRUE, [a.r EXCEPT !.last_update_slot = slot], 0)


----------------------------------------------------------------------------
(* Reserve configuration and the liquidation bonus *)

MAX_BONUS_PCT == 25
MAX_PROTOCOL_LIQUIDATION_FEE_DECA_BPS == 50

\* validate_reserve_config
validate_reserve_config(c) ==
    IF c.optimal_utilization_rate > 100 THEN Err("InvalidConfig")
    ELSE IF c.max_utilization_rate < c.optimal_utilization_rate
            \/ c.max_utilization_rate > 100 THEN Err("InvalidConfig")
    ELSE IF c.loan_to_value_ratio >= 100 THEN Err("InvalidConfig")
    ELSE IF c.liquidation_bonus > 100 THEN Err("InvalidConfig")
    ELSE IF c.max_liquidation_bonus < c.liquidation_bonus
            \/ c.max_liquidation_bonus > 100 THEN Err("InvalidConfig")
    ELSE IF c.liquidation_threshold < c.loan_to_value_ratio
            \/ c.liquidation_threshold > 100 THEN Err("InvalidConfig")
    ELSE IF c.max_liquidation_threshold < c.liquidation_threshold
            \/ c.max_liquidation_threshold > 100 THEN Err("InvalidConfig")
    ELSE IF c.optimal_borrow_rate < c.min_borrow_rate THEN Err("InvalidConfig")
    ELSE IF c.optimal_borrow_rate > c.max_borrow_rate THEN Err("InvalidConfig")
    ELSE IF c.super_max_borrow_rate < c.max_borrow_rate THEN Err("InvalidConfig")
    ELSE IF c.borrow_fee_wad >= WAD THEN Err("InvalidConfig")
    ELSE IF c.host_fee_percentage > 100 THEN Err("InvalidConfig")
    ELSE IF c.protocol_liquidation_fee > MAX_PROTOCOL_LIQUIDATION_FEE_DECA_BPS
         THEN Err("InvalidConfig")
    ELSE IF c.max_liquidation_bonus * 100 + c.protocol_liquidation_fee * 10
               > MAX_BONUS_PCT * 100 THEN Err("InvalidConfig")
    ELSE IF c.protocol_take_rate > 100 THEN Err("InvalidConfig")
    ELSE IF c.reserve_type = "Isolated"
            /\ ~(c.loan_to_value_ratio = 0 /\ c.liquidation_threshold = 0)
         THEN Err("InvalidConfig")
    ELSE Ok(0)

\* The bonus of calculate_bonus before the cap; o is the obligation
bonus_before_cap(c, o) ==
    LET liquidation_bonus == FromPercent(c.liquidation_bonus)
        max_liquidation_bonus == FromPercent(c.max_liquidation_bonus)
        protocol_liquidation_fee == FromDecaBps(c.protocol_liquidation_fee)
    IN IF o.borrowed_value < o.unhealthy_borrow_value THEN Err("ObligationHealthy")
       ELSE IF o.unhealthy_borrow_value = o.super_unhealthy_borrow_value
       THEN Ok(liquidation_bonus + protocol_liquidation_fee)
       ELSE IF o.super_unhealthy_borrow_value < o.unhealthy_borrow_value
       THEN Err("MathOverflow")
       ELSE LET weight == Min(DecDiv(o.borrowed_value - o.unhealthy_borrow_value,
                                     o.super_unhealthy_borrow_value
                                        - o.unhealthy_borrow_value).v,
                              WAD)
            IN IF max_liquidation_bonus < liquidation_bonus THEN Err("MathOverflow")
               ELSE Ok(liquidation_bonus
                       + DecMul(weight, max_liquidation_bonus - liquidation_bonus)
                       + protocol_liquidation_fee)

\* calculate_bonus without the cap at MAX_BONUS_PCT
calculate_bonus_uncapped(c, o) ==
    bonus_before_cap(c, o)

\* calculate_bonus refusing an obligation at its unhealthy borrow value as healthy
calculate_bonus_strict(c, o) ==
    IF o.borrowed_value <= o.unhealthy_borrow_value THEN Err("ObligationHealthy")
    ELSE LET b == bonus_before_cap(c, o)
         IN IF ~b.ok THEN b ELSE Ok(Min(b.v, FromPercent(MAX_BONUS_PCT)))

\* calculate_bonus that never weighs in max_liquidation_bonus
calculate_bonus_unweighted(c, o) ==
    LET level == [o EXCEPT !.super_unhealthy_borrow_value = o.unhealthy_borrow_value]
        b == bonus_before_cap(c, level)
    IN IF ~b.ok THEN b ELSE Ok(Min(b.v, FromPercent(MAX_BONUS_PCT)))

\* Reserve::calculate_bonus
calculate_bonus(c, o) ==
    LET b == bonus_before_cap(c, o)
    IN IF ~b.ok THEN b ELSE Ok(Min(b.v, FromPercent(MAX_BONUS_PCT)))

----------------------------------------------------------------------------
(* The reserve as a state machine: SpecReserve *)

\* Configurations the reserve is created with; each passes validate_reserve_config
BaseConfig ==
    [ optimal_utilization_rate |-> 50, max_utilization_rate |-> 80,
      loan_to_value_ratio |-> 50,
      liquidation_bonus |-> 10, max_liquidation_bonus |-> 20,
      liquidation_threshold |-> 60, max_liquidation_threshold |-> 80,
      min_borrow_rate |-> 10, optimal_borrow_rate |-> 50,
      max_borrow_rate |-> 100, super_max_borrow_rate |-> 200,
      borrow_fee_wad |-> 0, host_fee_percentage |-> 0,
      protocol_liquidation_fee |-> 10, protocol_take_rate |-> 50,
      deposit_limit |-> MaxU64, borrow_limit |-> MaxU64,
      added_borrow_weight_bps |-> 0, reserve_type |-> "Regular" ]

ReserveConfigs ==
    { BaseConfig,
      [BaseConfig EXCEPT !.protocol_take_rate = 100],
      [BaseConfig EXCEPT !.protocol_take_rate = 0, !.min_borrow_rate = 0,
                         !.optimal_borrow_rate = 0] }

Idle == [reserves |-> <<>>, obligation |-> <<>>]
NoLimiter == [window_duration |-> 0, max_outflow |-> 0, window_start |-> 0,
              prev_qty |-> 0, cur_qty |-> 0]

InitReserve ==
    /\ reserve = NewReserve
    /\ config \in ReserveConfigs
    /\ last = [op |-> "new", ok |-> TRUE, before |-> NewReserve, n |-> 0]
    /\ clock = 0
    /\ limiter = NoLimiter
    /\ accepted = <<>>
    /\ market = Idle
    /\ out = <<>>

\* The state a reserve operation leaves: the reserve as the method left it and its
\* Result; of a failed call, the host keeps the state before it to restore
Step(op, res) ==
    /\ reserve' = res.r
    /\ last.n < MaxOps
    /\ last' = [op |-> op, ok |-> res.ok,
                before |-> IF res.ok THEN NewReserve ELSE reserve,
                n |-> last.n + 1]
    /\ UNCHANGED <<config, clock, limiter, accepted, market, out>>

DepositLiquidity ==
    /\ last.ok
    /\ \E l \in 1..MaxAmount : Step("deposit_liquidity", deposit_liquidity(reserve, l))

RedeemCollateral ==
    /\ last.ok
    /\ \E c \in 1..MaxAmount : Step("redeem_collateral", redeem_collateral(reserve, c))

\* borrow amounts: whole tokens, and whole tokens and a half (a borrow with its fee)
BorrowLiquidity ==
    /\ last.ok
    /\ \E a \in 1..MaxAmount, f \in {0, HALF_WAD} :
          Step("borrow", liquidity_borrow(reserve, Dec(a) + f))

\* calculate_repay against the debt owed, then ReserveLiquidity::repay
RepayLiquidity ==
    /\ last.ok
    /\ reserve.borrowed_amount_wads > 0
    /\ \E a \in 1..MaxAmount, is_max \in BOOLEAN :
          LET c == calculate_repay(a, reserve.borrowed_amount_wads, is_max)
          IN Step("repay", liquidity_repay(reserve, c.repay_amount, c.settle_amount))

ForgiveDebt ==
    /\ last.ok
    /\ reserve.borrowed_amount_wads > 0
    /\ \E d \in {Dec(a) : a \in 1..MaxAmount} \cup {reserve.borrowed_amount_wads} :
          Step("forgive_debt", forgive_debt(reserve, d))

RedeemFees ==
    /\ last.ok
    /\ \E w \in 1..MaxAmount : Step("redeem_fees", redeem_fees(reserve, w))

RefreshReserve ==
    /\ last.ok
    /\ Step("accrue_interest", offchain_refresh_reserve_interest(reserve, config, clock))

\* The clock of the host chain
Tick ==
    /\ last.ok
    /\ clock < MaxSlot
    /\ clock' = clock + 1
    /\ last' = [op |-> "tick", ok |-> TRUE, before |-> NewReserve, n |-> last.n]
    /\ UNCHANGED <<reserve, config, limiter, accepted, market, out>>

\* A failed instruction aborts its transaction: the host discards what it wrote
Revert ==
    /\ ~last.ok
    /\ reserve' = last.before
    /\ last' = [op |-> "revert", ok |-> TRUE, before |-> NewReserve, n |-> last.n]
    /\ UNCHANGED <<config, clock, limiter, accepted, market, out>>

NextReserve ==
    \/ DepositLiquidity
    \/ RedeemCollateral
    \/ BorrowLiquidity
    \/ RepayLiquidity
    \/ ForgiveDebt
    \/ RedeemFees
    \/ RefreshReserve
    \/ Tick
    \/ Revert

SpecReserve == InitReserve /\ [][NextReserve]_vars


----------------------------------------------------------------------------
(* Claims about the reserve state machine, checked under SpecReserve *)

\* C1: after any sequence of reserve operations that each returned Ok, starting
\* from a new reserve, available_amount + borrowed_amount_wads -
\* accumulated_protocol_fees_wads >= 0, that is, total_supply() does not fail.
C1_TotalSupplyDoesNotFail ==
    last.ok => total_supply(reserve).ok

\* C4: a reserve operation that returns an error leaves every field of the reserve
\* as it was before the call.
C4_ErrLeavesReserveUnchanged ==
    ~last.ok => reserve = last.before

\* C6: cumulative_borrow_rate_wads starts at one, no operation decreases it, and
\* only a successful accrue_interest changes it.
C6_CumulativeRateMonotone ==
    /\ reserve.cumulative_borrow_rate_wads = WAD
    /\ [][ /\ reserve'.cumulative_borrow_rate_wads >= reserve.cumulative_borrow_rate_wads
           /\ reserve'.cumulative_borrow_rate_wads # reserve.cumulative_borrow_rate_wads
                 => last'.op = "accrue_interest" /\ last'.ok ]_vars

\* C6 witness: an accrual over elapsed slots at a positive rate has raised the rate
C6_Witness ==
    /\ last.op = "accrue_interest"
    /\ last.ok
    /\ reserve.borrowed_amount_wads > 0
    /\ reserve.cumulative_borrow_rate_wads > WAD

----------------------------------------------------------------------------
(* Utilization and the borrow-rate curve as functions of the liquidity state and
   the configuration: SpecRates *)

MaxFee == 2

\* Liquidity states: amounts in whole tokens, debt and fees in half tokens
LiquidityStates ==
    { [NewReserve EXCEPT !.available_amount = a,
                         !.borrowed_amount_wads = b * HALF_WAD,
                         !.accumulated_protocol_fees_wads = f * HALF_WAD] :
        a \in 0..MaxU64, b \in 0..(2 * MaxU64), f \in 0..MaxFee }

\* Curves: knees at 0, 50, 80 and 100 percent utilization, flat and rising rates
CurveConfigs ==
    { c \in { [BaseConfig EXCEPT !.optimal_utilization_rate = ou,
                                 !.max_utilization_rate = mu,
                                 !.min_borrow_rate = rates[1],
                                 !.optimal_borrow_rate = rates[2],
                                 !.max_borrow_rate = rates[3],
                                 !.super_max_borrow_rate = rates[4]] :
                ou \in {0, 50, 80}, mu \in {50, 80, 100},
                rates \in { <<0, 0, 0, 0>>, <<10, 50, 100, 200>>,
                            <<10, 10, 50, 50>> } } :
        validate_reserve_config(c).ok }

NotEvaluated == [fn |-> "none", r |-> Ok(0)]

InitRates ==
    /\ reserve \in LiquidityStates
    /\ config \in CurveConfigs
    /\ last = [op |-> "new", ok |-> TRUE, before |-> NewReserve, n |-> 0]
    /\ clock = 0
    /\ limiter = NoLimiter
    /\ accepted = <<>>
    /\ market = Idle
    /\ out = NotEvaluated

UtilizationRate ==
    /\ out' = [fn |-> "utilization_rate", r |-> utilization_rate(reserve)]
    /\ UNCHANGED <<reserve, config, last, limiter, clock, accepted, market>>

CurrentBorrowRate ==
    /\ out' = [fn |-> "current_borrow_rate", r |-> current_borrow_rate(reserve, config)]
    /\ UNCHANGED <<reserve, config, last, limiter, clock, accepted, market>>

NextRates ==
    \/ UtilizationRate
    \/ CurrentBorrowRate

SpecRates == InitRates /\ [][NextRates]_vars

\* C7: whenever utilization_rate() succeeds, the utilization is at most one.
C7_UtilizationAtMostOne ==
    out.fn = "utilization_rate" /\ out.r.ok => out.r.v <= WAD

\* C7 witness: a fully lent reserve with protocol fees owed has utilization one
C7_Witness ==
    /\ out.fn = "utilization_rate"
    /\ out.r.ok
    /\ out.r.v = WAD
    /\ reserve.accumulated_protocol_fees_wads > 0

\* The denominator the specification gives for utilization
SupplyNetOfFees ==
    reserve.borrowed_amount_wads + Dec(reserve.available_amount)
        - reserve.accumulated_protocol_fees_wads

\* C8 as stated: utilization_rate() equals borrowed / (borrowed + available - fees),
\* and is 0 when that denominator is 0, also when protocol fees are owed.
C8_UtilizationOverSupplyNetOfFees ==
    out.fn = "utilization_rate" /\ SupplyNetOfFees >= 0 =>
        out.r = IF SupplyNetOfFees = 0 THEN Ok(0)
                ELSE Ok((reserve.borrowed_amount_wads * WAD) \div SupplyNetOfFees)

\* C8 amended: utilization_rate() fails when borrowed + available - fees is negative;
\* otherwise it is 0 when that quantity or the debt is 0, and else it is
\* borrowed / (borrowed + available), the fees not taken off, rounded down.
C8_UtilizationOverGrossSupply ==
    out.fn = "utilization_rate" =>
        out.r = IF SupplyNetOfFees < 0 THEN Err("MathOverflow")
                ELSE IF SupplyNetOfFees = 0 \/ reserve.borrowed_amount_wads = 0 THEN Ok(0)
                ELSE Ok((reserve.borrowed_amount_wads * WAD)
                        \div (reserve.borrowed_amount_wads + Dec(reserve.available_amount)))

\* C8 witness: a partly lent reserve with protocol fees owed
C8_Witness ==
    /\ out.fn = "utilization_rate"
    /\ reserve.accumulated_protocol_fees_wads > 0
    /\ reserve.available_amount > 0
    /\ out.r.ok
    /\ out.r.v > 0

\* The rate current_borrow_rate() returned lies between the minimum and the super
\* maximum rate, and in the rate segment of the branch its utilization u falls in
RateInSegment(u, rate) ==
    LET ou == FromPercent(config.optimal_utilization_rate)
        mu == FromPercent(config.max_utilization_rate)
        min_rate == FromPercent(config.min_borrow_rate)
        optimal_rate == FromPercent(config.optimal_borrow_rate)
        max_rate == FromPercent(config.max_borrow_rate)
        super_max_rate == FromPercent(config.super_max_borrow_rate)
    IN /\ min_rate <= rate /\ rate <= super_max_rate
       /\ u <= ou => min_rate <= rate /\ rate <= optimal_rate
       /\ ou < u /\ u <= mu => optimal_rate <= rate /\ rate <= max_rate
       /\ mu < u => max_rate <= rate /\ rate <= super_max_rate

\* C9 as stated: for every valid curve and liquidity state, current_borrow_rate() lies
\* in [min, super max] and in the segment of its branch, and at a knee it equals the
\* knee's rate: the optimal rate at optimal utilization, the max rate at max utilization.
C9_RateEqualsKneeRateAtEveryKnee ==
    out.fn = "current_borrow_rate" /\ out.r.ok =>
        LET u == utilization_rate(reserve).v
        IN /\ RateInSegment(u, out.r.v)
           /\ u = FromPercent(config.optimal_utilization_rate)
                 => out.r.v = FromPercent(config.optimal_borrow_rate)
           /\ u = FromPercent(config.max_utilization_rate)
                 => out.r.v = FromPercent(config.max_borrow_rate)

\* C9 amended: for every valid curve and liquidity state whose utilization is defined,
\* current_borrow_rate() succeeds, lies in [min, super max] and in the segment of its
\* branch; at optimal utilization it is the optimal rate when the optimal utilization
\* is above 0 and the min rate when it is 0; at max utilization it is the max rate
\* when the two knees differ, and what the first knee gives when they coincide.
C9_RateEqualsKneeRateAtDistinctKnees ==
    out.fn = "current_borrow_rate" /\ utilization_rate(reserve).ok =>
        LET u == utilization_rate(reserve).v
            ou == FromPercent(config.optimal_utilization_rate)
            mu == FromPercent(config.max_utilization_rate)
        IN /\ out.r.ok
           /\ RateInSegment(u, out.r.v)
           /\ u = ou /\ ou > 0 => out.r.v = FromPercent(config.optimal_borrow_rate)
           /\ u = ou /\ ou = 0 => out.r.v = FromPercent(config.min_borrow_rate)
           /\ u = mu /\ ou < mu => out.r.v = FromPercent(config.max_borrow_rate)

\* C9 witness: a rising curve evaluated at its second knee, the first knee below it
C9_Witness ==
    /\ out.fn = "current_borrow_rate"
    /\ out.r.ok
    /\ config.optimal_utilization_rate < config.max_utilization_rate
    /\ config.optimal_borrow_rate < config.max_borrow_rate
    /\ utilization_rate(reserve).v = FromPercent(config.max_utilization_rate)
    /\ out.r.v = FromPercent(config.max_borrow_rate)

----------------------------------------------------------------------------
(* The liquidation bonus as a function of the configuration and the obligation's
   values: SpecBonus *)

MaxValue == 3

\* Bonus settings, those of the tests of calculate_bonus among them; some of them
\* validate_reserve_config rejects
BonusConfigs ==
    { [BaseConfig EXCEPT !.liquidation_bonus = lb,
                         !.max_liquidation_bonus = mlb,
                         !.protocol_liquidation_fee = plf] :
        lb \in {0, 10, 30}, mlb \in {10, 20, 30}, plf \in {0, 10, 30, 50} }

\* An obligation's values as a refresh leaves them: the liquidation threshold of a
\* deposit is at most its max liquidation threshold
ObligationValues ==
    { [borrowed_value |-> Dec(b), unhealthy_borrow_value |-> Dec(u),
       super_unhealthy_borrow_value |-> Dec(s)] :
        b \in 0..MaxValue, u \in 0..MaxValue, s \in 0..MaxValue }

InitBonus ==
    /\ reserve = NewReserve
    /\ config \in BonusConfigs
    /\ last = [op |-> "new", ok |-> TRUE, before |-> NewReserve, n |-> 0]
    /\ clock = 0
    /\ limiter = NoLimiter
    /\ accepted = <<>>
    /\ market \in { [reserves |-> <<>>, obligation |-> o] :
                      o \in { v \in ObligationValues :
                                v.unhealthy_borrow_value <= v.super_unhealthy_borrow_value } }
    /\ out = NotEvaluated

CalculateBonus ==
    /\ out' = [fn |-> "calculate_bonus", r |-> calculate_bonus(config, market.obligation)]
    /\ UNCHANGED <<reserve, config, last, limiter, clock, accepted, market>>

ValidateReserveConfig ==
    /\ out' = [fn |-> "validate_reserve_config", r |-> validate_reserve_config(config)]
    /\ UNCHANGED <<reserve, config, last, limiter, clock, accepted, market>>

NextBonus ==
    \/ CalculateBonus
    \/ ValidateReserveConfig

SpecBonus == InitBonus /\ [][NextBonus]_vars

C11_HealthyAtThresholdRefused ==
    out.fn = "calculate_bonus" /\
    market.obligation.borrowed_value <= market.obligation.unhealthy_borrow_value
        => ~out.r.ok /\ out.r.v = "ObligationHealthy"

\* C11 amended: calculate_bonus fails with ObligationHealthy exactly when
\* borrowed_value < unhealthy_borrow_value; an obligation whose borrowed_value
\* equals its unhealthy_borrow_value is liquidated, with the weight of the bonus 0.
C11_HealthyBelowThresholdRefused ==
    out.fn = "calculate_bonus" =>
        /\ (market.obligation.borrowed_value < market.obligation.unhealthy_borrow_value
               <=> ~out.r.ok /\ out.r.v = "ObligationHealthy")
        /\ (out.r.ok /\ validate_reserve_config(config).ok /\
             market.obligation.borrowed_value = market.obligation.unhealthy_borrow_value
               => out.r.v = FromPercent(config.liquidation_bonus)
                              + FromDecaBps(config.protocol_liquidation_fee))

\* An obligation exactly at its unhealthy borrow value got a bonus
C11_Witness ==
    /\ out.fn = "calculate_bonus"
    /\ out.r.ok
    /\ market.obligation.borrowed_value > 0
    /\ market.obligation.borrowed_value = market.obligation.unhealthy_borrow_value
    /\ market.obligation.unhealthy_borrow_value
          < market.obligation.super_unhealthy_borrow_value

\* the obligation is super unhealthy and the config has its bonuses in order
SuperUnhealthy ==
    /\ out.fn = "calculate_bonus"
    /\ config.liquidation_bonus <= config.max_liquidation_bonus
    /\ market.obligation.borrowed_value >= market.obligation.super_unhealthy_borrow_value
    /\ market.obligation.borrowed_value >= market.obligation.unhealthy_borrow_value

----------------------------------------------------------------------------
(* The rate limiter: SpecLimiter *)

MaxWindow == 3
MaxOutflow == 2
MaxLimiterSlot == 6

\* RateLimiter::new: an empty window starting at the current slot
RateLimiterNew(window_duration, max_outflow, cur_slot) ==
    [window_duration |-> window_duration, max_outflow |-> max_outflow,
     window_start |-> cur_slot, prev_qty |-> 0, cur_qty |-> 0]

\* The window bookkeeping of update: a slot in the window after the current one
\* shifts the windows, a slot further on starts afresh
window_update(l, cur_slot) ==
    IF cur_slot < l.window_start THEN Err("InvalidAccountInput")
    ELSE IF cur_slot < l.window_start + l.window_duration THEN Ok(l)
    ELSE IF cur_slot < l.window_start + 2 * l.window_duration
    THEN Ok([l EXCEPT !.prev_qty = l.cur_qty, !.cur_qty = 0,
                      !.window_start = l.window_start + l.window_duration
                           * ((cur_slot - l.window_start) \div l.window_duration)])
    ELSE Ok([l EXCEPT !.prev_qty = 0, !.cur_qty = 0, !.window_start = cur_slot])

\* the weight of the previous window without the current slot counted as elapsed
prev_weight_slot_not_elapsed(l, cur_slot) ==
    (Dec(l.window_duration - (cur_slot - l.window_start))) \div l.window_duration

\* The share of the previous window's outflow that still counts at cur_slot: it
\* is taken as spread evenly over that window, and the current slot as elapsed
prev_weight(l, cur_slot) ==
    (Dec(l.window_duration - (cur_slot - l.window_start + 1))) \div l.window_duration

\* current_outflow that forgets the previous window
current_outflow_no_prev(l, cur_slot) ==
    l.cur_qty

\* The effective usage at cur_slot
current_outflow(l, cur_slot) ==
    DecMul(prev_weight(l, cur_slot), l.prev_qty) + l.cur_qty

\* RateLimiter::update: the Result and the limiter as the call left it
limiter_update(l, cur_slot, qty) ==
    IF l.window_duration = 0 THEN [ok |-> TRUE, l |-> l, v |-> 0] ELSE
    LET w == window_update(l, cur_slot)
    IN IF ~w.ok THEN [ok |-> FALSE, l |-> l, v |-> w.v]
       ELSE IF current_outflow(w.v, cur_slot) + qty > Dec(w.v.max_outflow)
       THEN [ok |-> FALSE, l |-> w.v, v |-> "OutflowRateLimitExceeded"]
       ELSE [ok |-> TRUE, l |-> [w.v EXCEPT !.cur_qty = @ + qty], v |-> 0]

LimiterSlots == 0..MaxLimiterSlot

InitLimiter ==
    /\ reserve = NewReserve
    /\ config = BaseConfig
    /\ last = [op |-> "new", ok |-> TRUE, before |-> NewReserve, n |-> 0,
               arg |-> 0, v |-> "Ok"]
    /\ clock = 0
    /\ limiter \in { RateLimiterNew(w, m, 0) : w \in 0..MaxWindow, m \in 1..MaxOutflow }
    /\ accepted = [t \in LimiterSlots |-> 0]
    /\ market = Idle
    /\ out = <<>>

\* update(clock, q) with q whole units; the history records what was accepted
LimiterUpdate ==
    /\ last.n < MaxOps
    /\ \E q \in 1..MaxOutflow :
          LET res == limiter_update(limiter, clock, Dec(q))
          IN /\ limiter' = res.l
             /\ accepted' = IF res.ok THEN [accepted EXCEPT ![clock] = @ + q]
                            ELSE accepted
             /\ last' = [op |-> "update", ok |-> res.ok, before |-> NewReserve,
                         n |-> last.n + 1, arg |-> q,
                         v |-> IF res.ok THEN "Ok" ELSE res.v]
    /\ UNCHANGED <<reserve, config, clock, market, out>>

LimiterTick ==
    /\ clock < MaxLimiterSlot
    /\ clock' = clock + 1
    /\ last' = [last EXCEPT !.op = "tick", !.ok = TRUE]
    /\ UNCHANGED <<reserve, config, limiter, accepted, market, out>>

NextLimiter ==
    \/ LimiterUpdate
    \/ LimiterTick

SpecLimiter == InitLimiter /\ [][NextLimiter]_vars

\* The quantity accepted at the slots lo..hi
RECURSIVE AcceptedIn(_, _)
AcceptedIn(lo, hi) ==
    IF hi < lo THEN 0
    ELSE (IF hi \in LimiterSlots THEN accepted[hi] ELSE 0) + AcceptedIn(lo, hi - 1)

\* C2 as stated: with W > 0, the quantities accepted at the slots of any interval of W
\* consecutive slots, aligned with the limiter's windows or not, sum to at most M.
C2_AnyIntervalWithinCap ==
    limiter.window_duration > 0 =>
        \A t \in LimiterSlots :
            AcceptedIn(t, t + limiter.window_duration - 1) <= limiter.max_outflow

\* C2 amended: with W > 0, after every update the quantity accepted in the limiter's
\* current window plus the decayed share of the quantity accepted in the window
\* before it is at most M; so the sum over each of the limiter's own windows is at
\* most M, and the sum over an arbitrary interval of W slots is at most 2M.
C2_AlignedWindowWithinCap ==
    limiter.window_duration > 0 /\ last.op = "update" =>
        LET W == limiter.window_duration
            ws == limiter.window_start
        IN /\ ws <= clock /\ clock < ws + W
           /\ DecMul(prev_weight(limiter, clock), Dec(AcceptedIn(ws - W, ws - 1)))
                 + Dec(AcceptedIn(ws, ws + W - 1)) <= Dec(limiter.max_outflow)
           /\ \A t \in LimiterSlots :
                 AcceptedIn(t, t + W - 1) <= 2 * limiter.max_outflow

\* C2 witness: an update accepted in a window whose predecessor saw an outflow too
C2_Witness ==
    /\ limiter.window_duration > 1
    /\ last.op = "update"
    /\ last.ok
    /\ limiter.prev_qty > 0
    /\ accepted[clock] > 0
    /\ AcceptedIn(clock - limiter.window_duration + 1, clock) > limiter.max_outflow

\* C17: with window W > 0 and cap M, once outflows of exactly M were accepted at the
\* first slot of a window, every update of at least one unit at a slot of that window
\* fails with OutflowRateLimitExceeded, and the first update accepted or refused at the
\* slot W after the first one succeeds exactly when its quantity is at most M / W.
C17_WindowExhaustedThenRefilled ==
    [][(/\ limiter.window_duration > 0
        /\ limiter.window_start = 0
        /\ accepted[0] = limiter.max_outflow
        /\ last'.op = "update"
        /\ last'.n = last.n + 1)
       => /\ clock < limiter.window_duration
               => ~last'.ok /\ last'.v = "OutflowRateLimitExceeded"
          /\ (clock = limiter.window_duration /\ accepted[clock] = 0)
               => /\ last'.arg <= limiter.max_outflow \div limiter.window_duration
                       => last'.ok
                  /\ last'.arg > limiter.max_outflow \div limiter.window_duration
                       => ~last'.ok /\ last'.v = "OutflowRateLimitExceeded"]_vars

\* the cap was used up at slot 0 and M / W >= 1 was accepted at slot W
C17_Witness ==
    /\ limiter.window_duration > 1
    /\ clock = limiter.window_duration
    /\ accepted[0] = limiter.max_outflow
    /\ last.op = "update"
    /\ last.ok
    /\ last.arg = limiter.max_outflow \div limiter.window_duration
    /\ accepted[clock] = last.arg

----------------------------------------------------------------------------
(* Valuation, borrow fees and calculate_borrow *)

\* Reserve::borrow_weight
borrow_weight(r) == WAD + FromBps(r.config.added_borrow_weight_bps)

\* Reserve::loan_to_value_ratio
loan_to_value_ratio(r) == FromPercent(r.config.loan_to_value_ratio)

\* 10^mint_decimals as a Decimal
DecimalsOf(r) == Dec(10 ^ r.mint_decimals)

\* the price bounds of market_value_upper_bound and market_value_lower_bound
price_upper_bound(r) == Max(r.market_price, r.smoothed_market_price)
price_lower_bound(r) == Min(r.market_price, r.smoothed_market_price)

\* Reserve::market_value
market_value(r, liquidity_amount) ==
    DecDiv(DecMul(r.market_price, liquidity_amount), DecimalsOf(r)).v

\* Reserve::market_value_upper_bound
market_value_upper_bound(r, liquidity_amount) ==
    DecDiv(DecMul(price_upper_bound(r), liquidity_amount), DecimalsOf(r)).v

\* Reserve::market_value_lower_bound
market_value_lower_bound(r, liquidity_amount) ==
    DecDiv(DecMul(price_lower_bound(r), liquidity_amount), DecimalsOf(r)).v

\* calculate_fees without the minimum fee
calculate_fees_no_minimum(c, amount, fee_wad, fee_calculation) ==
    LET borrow_fee_rate == fee_wad
        host_fee_rate == FromPercent(c.host_fee_percentage)
    IN IF borrow_fee_rate > 0 /\ amount > 0 THEN
          LET borrow_fee_decimal ==
                  IF fee_calculation = "Exclusive" THEN DecMul(amount, borrow_fee_rate)
                  ELSE DecMul(amount, DecDiv(borrow_fee_rate, borrow_fee_rate + WAD).v)
          IN IF borrow_fee_decimal >= amount THEN Err("BorrowTooSmall")
             ELSE Ok([borrow_fee |-> Round(borrow_fee_decimal),
                      host_fee |-> IF host_fee_rate > 0
                                   THEN Max(Round(DecMul(borrow_fee_decimal, host_fee_rate)), 1)
                                   ELSE 0])
       ELSE Ok([borrow_fee |-> 0, host_fee |-> 0])

\* ReserveFees::calculate_fees; amount is a Decimal, fee_wad a scaled rate
calculate_fees(c, amount, fee_wad, fee_calculation) ==
    LET borrow_fee_rate == fee_wad
        host_fee_rate == FromPercent(c.host_fee_percentage)
    IN IF borrow_fee_rate > 0 /\ amount > 0 THEN
          LET need_to_assess_host_fee == host_fee_rate > 0
              minimum_fee == IF need_to_assess_host_fee THEN 2 ELSE 1
              borrow_fee_amount ==
                  IF fee_calculation = "Exclusive" THEN DecMul(amount, borrow_fee_rate)
                  ELSE DecMul(amount, DecDiv(borrow_fee_rate, borrow_fee_rate + WAD).v)
              borrow_fee_decimal == Max(borrow_fee_amount, Dec(minimum_fee))
          IN IF borrow_fee_decimal >= amount THEN Err("BorrowTooSmall")
             ELSE Ok([borrow_fee |-> Round(borrow_fee_decimal),
                      host_fee |-> IF need_to_assess_host_fee
                                   THEN Max(Round(DecMul(borrow_fee_decimal, host_fee_rate)), 1)
                                   ELSE 0])
       ELSE Ok([borrow_fee |-> 0, host_fee |-> 0])

\* ReserveFees::calculate_borrow_fees
calculate_borrow_fees(c, borrow_amount, fee_calculation) ==
    calculate_fees(c, borrow_amount, c.borrow_fee_wad, fee_calculation)

\* calculate_borrow that does not compare the borrow's value with max_borrow_value
calculate_borrow_unchecked(r, amount_to_borrow, max_borrow_value, remaining_reserve_borrow) ==
    LET fees == calculate_borrow_fees(r.config, Dec(amount_to_borrow), "Exclusive")
    IN IF ~fees.ok THEN fees
       ELSE Ok([borrow_amount |-> Dec(amount_to_borrow) + Dec(fees.v.borrow_fee),
                receive_amount |-> amount_to_borrow,
                borrow_fee |-> fees.v.borrow_fee, host_fee |-> fees.v.host_fee])

\* Reserve::calculate_borrow; amount_to_borrow = MaxU64 is the request for the most
calculate_borrow(r, amount_to_borrow, max_borrow_value, remaining_reserve_borrow) ==
    IF amount_to_borrow = MaxU64 THEN
       LET by_price == DecDiv(max_borrow_value * (10 ^ r.mint_decimals),
                              price_upper_bound(r))
       IN IF ~by_price.ok THEN by_price ELSE
          LET borrow_amount == Min(Min(DecDiv(by_price.v, borrow_weight(r)).v,
                                       remaining_reserve_borrow),
                                   Dec(r.available_amount))
              fees == calculate_borrow_fees(r.config, borrow_amount, "Inclusive")
          IN IF ~fees.ok THEN fees
             ELSE IF Floor(borrow_amount) < fees.v.borrow_fee THEN Err("MathOverflow")
             ELSE Ok([borrow_amount |-> borrow_amount,
                      receive_amount |-> Floor(borrow_amount) - fees.v.borrow_fee,
                      borrow_fee |-> fees.v.borrow_fee, host_fee |-> fees.v.host_fee])
    ELSE
       LET fees == calculate_borrow_fees(r.config, Dec(amount_to_borrow), "Exclusive")
       IN IF ~fees.ok THEN fees ELSE
          LET borrow_amount == Dec(amount_to_borrow) + Dec(fees.v.borrow_fee)
              borrow_value == DecMul(market_value_upper_bound(r, borrow_amount),
                                     borrow_weight(r))
          IN IF borrow_value > max_borrow_value THEN Err("BorrowTooLarge")
             ELSE Ok([borrow_amount |-> borrow_amount,
                      receive_amount |-> amount_to_borrow,
                      borrow_fee |-> fees.v.borrow_fee, host_fee |-> fees.v.host_fee])

----------------------------------------------------------------------------
(* The obligation and its refresh *)

RECURSIVE SeqSum(_)
SeqSum(q) == IF q = <<>> THEN 0 ELSE Head(q) + SeqSum(Tail(q))

\* Obligation::new: no deposits, no borrows, every aggregate zero
NewObligation ==
    [ deposits |-> <<>>, borrows |-> <<>>,
      deposited_value |-> 0, borrowed_value |-> 0, borrowed_value_upper_bound |-> 0,
      allowed_borrow_value |-> 0, unhealthy_borrow_value |-> 0,
      super_unhealthy_borrow_value |-> 0, borrowing_isolated_asset |-> FALSE,
      last_update_slot |-> 0, stale |-> TRUE ]

\* CollateralExchangeRate::decimal_collateral_to_liquidity
decimal_collateral_to_liquidity(rate, collateral_amount) ==
    DecDiv(collateral_amount, rate).v

\* CollateralExchangeRate::decimal_liquidity_to_collateral
decimal_liquidity_to_collateral(rate, liquidity_amount) ==
    DecMul(liquidity_amount, rate)

\* ObligationLiquidity::accrue_interest: the debt grows by the ratio of the reserve's
\* cumulative borrow rate to the one stored with the borrow
liquidity_accrue_interest(line, cumulative_borrow_rate_wads) ==
    IF cumulative_borrow_rate_wads < line.cumulative_borrow_rate_wads
    THEN Err("NegativeInterestRate")
    ELSE IF cumulative_borrow_rate_wads > line.cumulative_borrow_rate_wads
    THEN Ok([line EXCEPT
               !.borrowed_amount_wads =
                   DecMul(@, DecDiv(cumulative_borrow_rate_wads,
                                    line.cumulative_borrow_rate_wads).v),
               !.cumulative_borrow_rate_wads = cumulative_borrow_rate_wads])
    ELSE Ok(line)

\* offchain_refresh_obligation: the market value of every deposit and borrow, and
\* deposited_value, unhealthy_borrow_value, super_unhealthy_borrow_value and
\* borrowed_value summed from them; rs maps a reserve's key to the reserve
offchain_refresh_obligation(o, rs) ==
    LET deposit_value(d) ==
            LET r == rs[d.deposit_reserve]
            IN market_value(r, decimal_collateral_to_liquidity(
                                   collateral_exchange_rate(r).v, Dec(d.deposited_amount)))
        deposits == [i \in 1..Len(o.deposits) |->
                        [o.deposits[i] EXCEPT !.market_value = deposit_value(o.deposits[i])]]
        accrued == [i \in 1..Len(o.borrows) |->
                        liquidity_accrue_interest(
                            o.borrows[i],
                            rs[o.borrows[i].borrow_reserve].cumulative_borrow_rate_wads)]
        borrows == [i \in 1..Len(o.borrows) |->
                        [accrued[i].v EXCEPT !.market_value =
                            market_value(rs[o.borrows[i].borrow_reserve],
                                         accrued[i].v.borrowed_amount_wads)]]
    IN IF \E i \in 1..Len(o.deposits) :
             ~collateral_exchange_rate(rs[o.deposits[i].deposit_reserve]).ok
       THEN Err("MathOverflow")
       ELSE IF \E i \in 1..Len(o.borrows) : ~accrued[i].ok THEN Err("NegativeInterestRate")
       ELSE Ok([o EXCEPT
           !.deposits = deposits,
           !.borrows = borrows,
           !.deposited_value = SeqSum([i \in 1..Len(deposits) |-> deposits[i].market_value]),
           !.unhealthy_borrow_value =
               SeqSum([i \in 1..Len(deposits) |->
                   DecMul(deposits[i].market_value,
                          FromPercent(rs[deposits[i].deposit_reserve]
                                          .config.liquidation_threshold))]),
           !.super_unhealthy_borrow_value =
               SeqSum([i \in 1..Len(deposits) |->
                   DecMul(deposits[i].market_value,
                          FromPercent(rs[deposits[i].deposit_reserve]
                                          .config.max_liquidation_threshold))]),
           !.borrowed_value =
               SeqSum([i \in 1..Len(borrows) |->
                   DecMul(borrows[i].market_value,
                          borrow_weight(rs[borrows[i].borrow_reserve]))])])

\* The order of mints in (added_borrow_weight_bps, mint_pubkey) pairs
MintOrder(id) == CASE id = "USDC" -> 1 [] id = "SOL" -> 2 [] OTHER -> 3

\* (added_borrow_weight_bps, mint_pubkey) of one borrow is greater than another's
WeightGreater(rs, a, b) ==
    LET wa == rs[a.borrow_reserve].config.added_borrow_weight_bps
        wb == rs[b.borrow_reserve].config.added_borrow_weight_bps
    IN wa > wb \/ (wa = wb /\ MintOrder(a.borrow_reserve) > MintOrder(b.borrow_reserve))

\* Normalization: zero entries removed, the borrow of greatest weight moved first
normalize(o, rs) ==
    LET deposits == SelectSeq(o.deposits, LAMBDA d : d.deposited_amount # 0)
        kept == SelectSeq(o.borrows, LAMBDA b : b.borrowed_amount_wads # 0)
        top == IF kept = <<>> THEN 0
               ELSE CHOOSE i \in 1..Len(kept) :
                       \A j \in 1..Len(kept) : j # i => WeightGreater(rs, kept[i], kept[j])
    IN [o EXCEPT !.deposits = deposits,
                 !.borrows = IF top <= 1 THEN kept
                             ELSE [kept EXCEPT ![1] = kept[top], ![top] = kept[1]]]

\* Refresh obligation: normalization, the aggregates of offchain_refresh_obligation,
\* allowed_borrow_value from the lower-bound value of the deposits, the upper bound
\* of borrowed_value, the isolated flag, and last_update = (slot, not stale)
refresh_obligation(o, rs, slot) ==
    LET n == offchain_refresh_obligation(normalize(o, rs), rs)
    IN IF ~n.ok THEN n ELSE
       Ok([n.v EXCEPT
           !.allowed_borrow_value =
               SeqSum([i \in 1..Len(n.v.deposits) |->
                   LET r == rs[n.v.deposits[i].deposit_reserve]
                   IN DecMul(market_value_lower_bound(
                                 r, decimal_collateral_to_liquidity(
                                        collateral_exchange_rate(r).v,
                                        Dec(n.v.deposits[i].deposited_amount))),
                             loan_to_value_ratio(r))]),
           !.borrowed_value_upper_bound =
               SeqSum([i \in 1..Len(n.v.borrows) |->
                   LET r == rs[n.v.borrows[i].borrow_reserve]
                   IN DecMul(market_value_upper_bound(r, n.v.borrows[i].borrowed_amount_wads),
                             borrow_weight(r))]),
           !.borrowing_isolated_asset =
               \E i \in 1..Len(n.v.borrows) :
                   rs[n.v.borrows[i].borrow_reserve].config.reserve_type = "Isolated",
           !.last_update_slot = slot,
           !.stale = FALSE])

----------------------------------------------------------------------------
(* The instructions of a lending market on its reserves and one obligation *)

\* offchain_refresh_reserve that sets the slot of last_update and leaves its flag
offchain_refresh_reserve_keeps_stale(r, slot, price) ==
    IF price = << >> THEN Res(FALSE, r, "No price") ELSE
    LET r1 == [r EXCEPT !.market_price = price[1]]
        a == accrue_interest(r1, r1.config, slot)
    IN IF ~a.ok THEN a
       ELSE Res(TRUE, [a.r EXCEPT !.last_update_slot = slot], 0)

\* offchain_refresh_reserve: the price of the oracle, accrued interest, and
\* last_update = (slot, not stale); price is the Option of the oracles' price,
\* << >> for None and <<p>> for Some(p)
offchain_refresh_reserve(r, slot, price) ==
    IF price = << >> THEN Res(FALSE, r, "No price") ELSE
    LET r1 == [r EXCEPT !.market_price = price[1]]
        a == accrue_interest(r1, r1.config, slot)
    IN IF ~a.ok THEN a
       ELSE Res(TRUE, [a.r EXCEPT !.last_update_slot = slot, !.stale = FALSE], 0)

\* refreshed in the current slot
Fresh(x, slot) == ~x.stale /\ x.last_update_slot = slot

\* the index of the obligation's deposit or borrow on a reserve, 0 when there is none
DepositIndex(o, id) ==
    IF \E i \in 1..Len(o.deposits) : o.deposits[i].deposit_reserve = id
    THEN CHOOSE i \in 1..Len(o.deposits) : o.deposits[i].deposit_reserve = id
    ELSE 0

BorrowIndex(o, id) ==
    IF \E i \in 1..Len(o.borrows) : o.borrows[i].borrow_reserve = id
    THEN CHOOSE i \in 1..Len(o.borrows) : o.borrows[i].borrow_reserve = id
    ELSE 0

RemoveAt(q, i) == [j \in 1..(Len(q) - 1) |-> IF j < i THEN q[j] ELSE q[j + 1]]

\* the isolated-tier rule checked for an Isolated reserve only
isolated_tier_ok_one_way(o, r, id) ==
    r.config.reserve_type = "Isolated"
        => \A i \in 1..Len(o.borrows) : o.borrows[i].borrow_reserve = id

\* The isolated-tier rule at a new borrow on reserve id: an Isolated reserve only as
\* the sole borrow, a Regular one only when no Isolated borrow exists
isolated_tier_ok(o, r, id) ==
    o.borrowing_isolated_asset \/ r.config.reserve_type = "Isolated"
        => \A i \in 1..Len(o.borrows) : o.borrows[i].borrow_reserve = id

\* Refresh obligation: every reserve it deposits to or borrows from must be fresh
refresh_obligation_instruction(m, slot) ==
    LET o == m.obligation
    IN IF \/ \E i \in 1..Len(o.deposits) :
                ~Fresh(m.reserves[o.deposits[i].deposit_reserve], slot)
          \/ \E i \in 1..Len(o.borrows) :
                ~Fresh(m.reserves[o.borrows[i].borrow_reserve], slot)
       THEN Err("ReserveStale")
       ELSE LET n == refresh_obligation(o, m.reserves, slot)
            IN IF ~n.ok THEN n ELSE Ok([m EXCEPT !.obligation = n.v])

\* Borrow obligation liquidity
borrow_obligation_liquidity(m, id, liquidity_amount, slot) ==
    LET r == m.reserves[id]
        o == m.obligation
        remaining_borrow_value ==
            Max(0, o.allowed_borrow_value - o.borrowed_value_upper_bound)
        remaining_reserve_capacity ==
            Max(0, Dec(r.config.borrow_limit) - r.borrowed_amount_wads)
        cb == calculate_borrow(r, liquidity_amount, remaining_borrow_value,
                               remaining_reserve_capacity)
        i == BorrowIndex(o, id)
    IN IF liquidity_amount = 0 THEN Err("InvalidAmount")
       ELSE IF ~Fresh(r, slot) THEN Err("ReserveStale")
       ELSE IF ~Fresh(o, slot) THEN Err("ObligationStale")
       ELSE IF o.deposits = <<>> THEN Err("ObligationDepositsEmpty")
       ELSE IF ~isolated_tier_ok(o, r, id) THEN Err("IsolatedTierAssetViolation")
       ELSE IF remaining_borrow_value = 0 THEN Err("BorrowTooLarge")
       ELSE IF ~cb.ok THEN cb
       ELSE IF cb.v.borrow_amount > remaining_reserve_capacity THEN Err("InvalidAmount")
       ELSE IF cb.v.receive_amount = 0 THEN Err("BorrowTooSmall")
       ELSE LET lb == liquidity_borrow(r, cb.v.borrow_amount)
            IN IF ~lb.ok THEN Err(lb.v) ELSE
               Ok([m EXCEPT
                   !.reserves[id] = [lb.r EXCEPT !.stale = TRUE],
                   !.obligation =
                      [o EXCEPT
                         !.borrows =
                            IF i = 0
                            THEN Append(o.borrows,
                                   [borrow_reserve |-> id,
                                    cumulative_borrow_rate_wads |->
                                        r.cumulative_borrow_rate_wads,
                                    borrowed_amount_wads |-> cb.v.borrow_amount,
                                    market_value |-> 0])
                            ELSE [o.borrows EXCEPT
                                    ![i].borrowed_amount_wads = @ + cb.v.borrow_amount],
                         !.stale = TRUE]])

\* Obligation::max_withdraw_amount: the headroom of allowed_borrow_value over the
\* upper bound of borrowed_value, as collateral of the reserve withdrawn from
max_withdraw_amount(o, collateral, r) ==
    IF o.borrows = <<>> THEN collateral.deposited_amount
    ELSE IF o.allowed_borrow_value <= o.borrowed_value_upper_bound THEN 0
    ELSE IF loan_to_value_ratio(r) = 0 THEN collateral.deposited_amount
    ELSE LET max_withdraw_value ==
                 DecDiv(o.allowed_borrow_value - o.borrowed_value_upper_bound,
                        loan_to_value_ratio(r)).v
             max_withdraw_liquidity_amount ==
                 DecDiv(max_withdraw_value * (10 ^ r.mint_decimals),
                        price_lower_bound(r))
         IN IF ~max_withdraw_liquidity_amount.ok THEN 0
            ELSE Min(Floor(decimal_liquidity_to_collateral(
                               collateral_exchange_rate(r).v,
                               max_withdraw_liquidity_amount.v)),
                     collateral.deposited_amount)

\* Withdraw obligation collateral
withdraw_obligation_collateral(m, id, collateral_amount, slot) ==
    LET r == m.reserves[id]
        o == m.obligation
        i == DepositIndex(o, id)
    IN IF collateral_amount = 0 THEN Err("InvalidAmount")
       ELSE IF ~Fresh(r, slot) THEN Err("ReserveStale")
       ELSE IF ~Fresh(o, slot) THEN Err("ObligationStale")
       ELSE IF i = 0 THEN Err("InvalidObligationCollateral")
       ELSE IF o.deposits[i].deposited_amount = 0 THEN Err("ObligationCollateralEmpty")
       ELSE LET most == max_withdraw_amount(o, o.deposits[i], r)
                withdraw_amount == Min(collateral_amount, most)
            IN IF most = 0 THEN Err("WithdrawTooLarge") ELSE
               Ok([m EXCEPT
                   !.obligation =
                      [o EXCEPT
                         !.deposits =
                            IF withdraw_amount = o.deposits[i].deposited_amount
                            THEN RemoveAt(o.deposits, i)
                            ELSE [o.deposits EXCEPT
                                    ![i].deposited_amount = @ - withdraw_amount],
                         !.stale = TRUE]])

\* Repay obligation liquidity
repay_obligation_liquidity(m, id, liquidity_amount, slot) ==
    LET r == m.reserves[id]
        o == m.obligation
        i == BorrowIndex(o, id)
    IN IF liquidity_amount = 0 THEN Err("InvalidAmount")
       ELSE IF ~Fresh(r, slot) THEN Err("ReserveStale")
       ELSE IF i = 0 THEN Err("InvalidObligationLiquidity")
       ELSE IF o.borrows[i].borrowed_amount_wads = 0 THEN Err("ObligationLiquidityEmpty")
       ELSE LET line == liquidity_accrue_interest(o.borrows[i],
                                                  r.cumulative_borrow_rate_wads)
            IN IF ~line.ok THEN line ELSE
               LET c == calculate_repay(liquidity_amount, line.v.borrowed_amount_wads,
                                        liquidity_amount = MaxU64)
                   rp == liquidity_repay(r, c.repay_amount, c.settle_amount)
               IN IF c.repay_amount = 0 THEN Err("RepayTooSmall")
                  ELSE IF ~rp.ok THEN Err(rp.v) ELSE
                  Ok([m EXCEPT
                      !.reserves[id] = [rp.r EXCEPT !.stale = TRUE],
                      !.obligation =
                         [o EXCEPT
                            !.borrows =
                               IF c.settle_amount = line.v.borrowed_amount_wads
                               THEN RemoveAt(o.borrows, i)
                               ELSE [o.borrows EXCEPT
                                       ![i] = [line.v EXCEPT
                                                 !.borrowed_amount_wads = @ - c.settle_amount]],
                            !.stale = TRUE]])

\* Update reserve config: the new config is validated and stored; the obligations
\* that borrow from the reserve are not looked at
update_reserve_config(m, id, new_config) ==
    LET v == validate_reserve_config(new_config)
    IN IF ~v.ok THEN v
       ELSE Ok([m EXCEPT !.reserves[id] = [@ EXCEPT !.config = new_config]])

----------------------------------------------------------------------------
(* The lending market as a state machine: SpecMarket *)

ReserveIds == {"USDC", "SOL", "BONK"}

\* the last slot of the market's clock
MaxMarketSlot == 1

\* A reserve of the market, refreshed at slot 0, holding `supply` of liquidity
MarketReserve(cfg, decimals, price, smoothed, supply) ==
    [ available_amount |-> supply,
      borrowed_amount_wads |-> 0,
      cumulative_borrow_rate_wads |-> WAD,
      accumulated_protocol_fees_wads |-> 0,
      mint_total_supply |-> supply,
      last_update_slot |-> 0,
      stale |-> FALSE,
      mint_decimals |-> decimals,
      market_price |-> price,
      smoothed_market_price |-> smoothed,
      config |-> cfg ]

\* USDC is the collateral; SOL and BONK are borrowed, at no interest as in the
\* tests of the isolated tier; BONK has no loan to value and may be Isolated
SolConfig(bps) ==
    [BaseConfig EXCEPT !.min_borrow_rate = 0, !.optimal_borrow_rate = 0,
                       !.max_borrow_rate = 0, !.super_max_borrow_rate = 0,
                       !.added_borrow_weight_bps = bps]

BonkConfig(type) ==
    [BaseConfig EXCEPT !.loan_to_value_ratio = 0, !.liquidation_threshold = 0,
                       !.min_borrow_rate = 0, !.optimal_borrow_rate = 0,
                       !.max_borrow_rate = 0, !.super_max_borrow_rate = 0,
                       !.reserve_type = type]

\* Prices: all at one; a weighted SOL at a third against USDC just under one; and
\* smoothed prices away from the market price on both sides
PriceScenarios ==
    { [usdc |-> Dec(1), usdc_smoothed |-> Dec(1), sol |-> Dec(1),
       sol_smoothed |-> Dec(1), sol_bps |-> 0],
      [usdc |-> 998, usdc_smoothed |-> 998, sol |-> 333,
       sol_smoothed |-> 333, sol_bps |-> 5000],
      [usdc |-> Dec(1), usdc_smoothed |-> 900, sol |-> 500,
       sol_smoothed |-> 600, sol_bps |-> 0] }

\* The market with a deposit of `deposited` collateral, everything refreshed
MarketWith(ps, bonk_type, deposited) ==
    LET rs == [id \in ReserveIds |->
                 CASE id = "USDC" -> MarketReserve(BaseConfig, 0, ps.usdc,
                                                   ps.usdc_smoothed, deposited)
                   [] id = "SOL" -> MarketReserve(SolConfig(ps.sol_bps), 0, ps.sol,
                                                  ps.sol_smoothed, MaxU64 - 1)
                   [] OTHER -> MarketReserve(BonkConfig(bonk_type), 1, 15, 15, MaxU64)]
        o == [NewObligation EXCEPT
                !.deposits = << [deposit_reserve |-> "USDC",
                                 deposited_amount |-> deposited, market_value |-> 0] >>]
    IN [reserves |-> rs, obligation |-> refresh_obligation(o, rs, 0).v, switched |-> {}]

InitMarket ==
    /\ reserve = NewReserve
    /\ config = BaseConfig
    /\ last = [op |-> "new", ok |-> TRUE, v |-> 0, n |-> 0]
    /\ clock = 0
    /\ limiter = NoLimiter
    /\ accepted = <<>>
    /\ market \in { MarketWith(ps, t, d) :
                      ps \in PriceScenarios, t \in {"Regular", "Isolated"},
                      d \in {1, 2} }
    /\ out = <<>>

\* An instruction and its Result: a failed instruction leaves the accounts as they
\* were, as the host discards what a failed transaction wrote
Instruction(op, res) ==
    /\ last.n < MaxOps
    /\ market' = IF res.ok THEN res.v ELSE market
    /\ last' = [op |-> op, ok |-> res.ok, v |-> IF res.ok THEN 0 ELSE res.v,
                n |-> last.n + 1]
    /\ UNCHANGED <<reserve, config, limiter, clock, accepted, out>>

MarketRefreshReserve ==
    \E id \in ReserveIds :
      \E price \in {<< >>, <<market.reserves[id].market_price>>} :
        LET res == offchain_refresh_reserve(market.reserves[id], clock, price)
        IN Instruction("refresh_reserve",
                       IF res.ok THEN Ok([market EXCEPT !.reserves[id] = res.r])
                       ELSE Err(res.v))

MarketRefreshObligation ==
    Instruction("refresh_obligation", refresh_obligation_instruction(market, clock))

\* the reserve's and the market's rate limiters are debited; both are disabled here
MarketBorrow ==
    \E id \in {"SOL", "BONK"}, a \in (1..MaxAmount) \cup {MaxU64} :
        LET res == borrow_obligation_liquidity(market, id, a, clock)
        IN /\ limiter_update(limiter, clock, Dec(a)).ok
           /\ Instruction("borrow_obligation_liquidity", res)

MarketWithdraw ==
    \E a \in (1..MaxAmount) \cup {MaxU64} :
        /\ limiter_update(limiter, clock, Dec(a)).ok
        /\ Instruction("withdraw_obligation_collateral",
                       withdraw_obligation_collateral(market, "USDC", a, clock))

MarketRepay ==
    \E id \in {"SOL", "BONK"}, a \in {1, MaxU64} :
        Instruction("repay_obligation_liquidity",
                    repay_obligation_liquidity(market, id, a, clock))

\* The owner switches the type of a reserve; the history keeps the reserves that
\* were switched to Isolated while the obligation had a borrow on them
MarketUpdateReserveConfig ==
    \E id \in {"SOL", "BONK"}, t \in {"Regular", "Isolated"} :
        LET res == update_reserve_config(
                       market, id, [market.reserves[id].config EXCEPT !.reserve_type = t])
        IN Instruction("update_reserve_config",
               IF res.ok /\ t = "Isolated"
                         /\ market.reserves[id].config.reserve_type = "Regular"
                         /\ BorrowIndex(market.obligation, id) # 0
               THEN Ok([res.v EXCEPT !.switched = @ \cup {id}])
               ELSE res)

MarketTick ==
    /\ clock < MaxMarketSlot
    /\ clock' = clock + 1
    /\ UNCHANGED <<reserve, config, last, limiter, accepted, market, out>>

NextMarket ==
    \/ MarketRefreshReserve
    \/ MarketRefreshObligation
    \/ MarketBorrow
    \/ MarketWithdraw
    \/ MarketRepay
    \/ MarketUpdateReserveConfig
    \/ MarketTick

SpecMarket == InitMarket /\ [][NextMarket]_vars

----------------------------------------------------------------------------
(* Claims on the lending market *)

\* the obligation's borrows on reserves that are Isolated now
IsolatedBorrows ==
    { i \in 1..Len(market.obligation.borrows) :
        market.reserves[market.obligation.borrows[i].borrow_reserve]
            .config.reserve_type = "Isolated" }

\* C3 as stated: in every reachable state, reserve-config updates that change a
\* reserve from Regular to Isolated included, an obligation that has a borrow on
\* an Isolated reserve has no other borrow.
C3_IsolatedBorrowIsSoleBorrow ==
    IsolatedBorrows # {} => Len(market.obligation.borrows) = 1

\* C3 amended: as long as no reserve was changed from Regular to Isolated while
\* the obligation had a borrow on it, an obligation that has a borrow on an
\* Isolated reserve has no other borrow.
C3_IsolatedBorrowIsSoleBorrowUnlessSwitched ==
    market.switched = {} =>
        (IsolatedBorrows # {} => Len(market.obligation.borrows) = 1)

\* An obligation with its sole borrow on an Isolated reserve, no reserve switched,
\* has just been refused a borrow on another reserve
C3_Witness ==
    /\ market.switched = {}
    /\ IsolatedBorrows # {}
    /\ Len(market.obligation.borrows) = 1
    /\ last.op = "borrow_obligation_liquidity"
    /\ ~last.ok
    /\ last.v = "IsolatedTierAssetViolation"

\* the obligation as a refresh at the current prices would leave it
Recomputed == refresh_obligation(market.obligation, market.reserves, clock).v

\* C5: after every successful borrow-obligation-liquidity or
\* withdraw-obligation-collateral, the obligation's borrowed_value, recomputed by
\* refresh at the same prices, is at most its allowed_borrow_value.
C5_BorrowedValueWithinAllowed ==
    last.ok /\ last.op \in {"borrow_obligation_liquidity",
                            "withdraw_obligation_collateral"}
        => Recomputed.borrowed_value <= Recomputed.allowed_borrow_value

----------------------------------------------------------------------------
(* The borrow fees as a function of the fee settings and the amount: SpecFees *)

MaxBorrowAmount == 5

\* Fee settings: borrow_fee_wad below WAD, host_fee_percentage up to 100
FeeConfigs ==
    { [BaseConfig EXCEPT !.borrow_fee_wad = f, !.host_fee_percentage = h] :
        f \in {0, 1, 10, 400, 500, 999}, h \in {0, 1, 20, 50, 100} }

\* Amounts borrowed: whole tokens, and whole tokens and a half
FeeAmounts ==
    { Dec(x) : x \in 0..MaxBorrowAmount } \cup
    { Dec(x) + HALF_WAD : x \in 0..MaxBorrowAmount }

InitFees ==
    /\ reserve = NewReserve
    /\ config \in FeeConfigs
    /\ last = [op |-> "new", ok |-> TRUE, before |-> NewReserve, n |-> 0]
    /\ clock = 0
    /\ limiter = NoLimiter
    /\ accepted = <<>>
    /\ market = Idle
    /\ out = NotEvaluated

CalculateBorrowFees ==
    \E amount \in FeeAmounts, fee_calculation \in {"Exclusive", "Inclusive"} :
        /\ out' = [fn |-> "calculate_borrow_fees",
                   r |-> calculate_borrow_fees(config, amount, fee_calculation),
                   amount |-> amount, fee_calculation |-> fee_calculation]
        /\ UNCHANGED <<reserve, config, last, limiter, clock, accepted, market>>

NextFees == CalculateBorrowFees

SpecFees == InitFees /\ [][NextFees]_vars

\* fee sanity of a successful Exclusive calculation on a whole amount
FeeSanity ==
    LET x == out.amount \div WAD
        total_fee == out.r.v.borrow_fee
        host_fee == out.r.v.host_fee
    IN /\ total_fee <= x
       /\ host_fee <= total_fee
       /\ (config.borrow_fee_wad > 0 => total_fee > 0)
       /\ (config.host_fee_percentage = 100 => host_fee = total_fee)
       /\ IF config.host_fee_percentage > 0 /\ config.borrow_fee_wad > 0
          THEN host_fee >= 1 ELSE host_fee = 0

\* C12 as stated: for every fee config with borrow_fee_wad < WAD and
\* host_fee_percentage <= 100 and every integer amount x for which
\* calculate_borrow_fees(x, Exclusive) succeeds: total_fee <= x, host_fee <=
\* total_fee, total_fee > 0 if borrow_fee_wad > 0, host_fee = total_fee at 100%,
\* host_fee >= 1 if both rates are positive and host_fee = 0 otherwise.
C12_FeeSanityForEveryAmount ==
    /\ out.fn = "calculate_borrow_fees"
    /\ out.fee_calculation = "Exclusive"
    /\ out.amount % WAD = 0
    /\ out.r.ok
    => FeeSanity

\* C12 amended: the same for every integer amount x > 0; for x = 0 the calculation
\* succeeds with total_fee = 0 and host_fee = 0 whatever the rates.
C12_FeeSanityForPositiveAmount ==
    /\ out.fn = "calculate_borrow_fees"
    /\ out.fee_calculation = "Exclusive"
    /\ out.amount % WAD = 0
    /\ out.r.ok
    => IF out.amount > 0 THEN FeeSanity
       ELSE out.r.v = [borrow_fee |-> 0, host_fee |-> 0]

\* A fee above the minimum was charged and shared with the host
C12_Witness ==
    /\ out.fn = "calculate_borrow_fees"
    /\ out.fee_calculation = "Exclusive"
    /\ out.amount % WAD = 0
    /\ out.r.ok
    /\ config.host_fee_percentage \in 1..99
    /\ out.r.v.borrow_fee > 2
    /\ out.r.v.host_fee >= 1
    /\ out.r.v.host_fee < out.r.v.borrow_fee

\* C13: for every amount > 0 and borrow_fee_wad > 0 for which the Exclusive
\* calculation succeeds, the borrow fee is ceil(amount * borrow_fee_wad / WAD),
\* raised to the minimum fee (1, or 2 with a host fee) if smaller, and the host
\* fee is max(1, round(borrow_fee * host_fee_percentage / 100)) with a host fee.
C13_BorrowFeeIsCeiling ==
    /\ out.fn = "calculate_borrow_fees"
    /\ out.fee_calculation = "Exclusive"
    /\ out.amount > 0
    /\ config.borrow_fee_wad > 0
    /\ out.r.ok
    => LET minimum_fee == IF config.host_fee_percentage > 0 THEN 2 ELSE 1
           borrow_fee == Max(Ceil(DecMul(out.amount, config.borrow_fee_wad)),
                             minimum_fee)
       IN /\ out.r.v.borrow_fee = borrow_fee
          /\ config.host_fee_percentage > 0 =>
                out.r.v.host_fee =
                    Max(1, Round(DecMul(Dec(borrow_fee),
                                        FromPercent(config.host_fee_percentage))))

----------------------------------------------------------------------------
(* A deposit redeemed at once, on reserves with debt, interest and forgiven debt:
   SpecRoundTrip *)

MaxSupply == 3

\* The reserve after deposit_liquidity(d), liquidity.borrow(b), accrue_interest at
\* slot s and, when forgiven, forgive_debt of all its debt
ReserveAfter(c, d, b, s, forgiven) ==
    LET r1 == deposit_liquidity(NewReserve, d).r
        r2 == IF b = 0 THEN r1 ELSE liquidity_borrow(r1, Dec(b)).r
        r3 == accrue_interest(r2, c, s).r
    IN IF forgiven /\ r3.borrowed_amount_wads > 0
       THEN forgive_debt(r3, r3.borrowed_amount_wads).r
       ELSE r3

NoRoundTrip == [fn |-> "none", ok |-> TRUE, l |-> 0, minted |-> 0, before |-> NewReserve]

InitRoundTrip ==
    /\ config \in ReserveConfigs
    /\ \E supplied \in 1..MaxSupply, slot \in 0..MaxSlot, forgiven \in BOOLEAN :
          \E borrowed \in 0..supplied :
             reserve = ReserveAfter(config, supplied, borrowed, slot, forgiven)
    /\ last = [op |-> "new", ok |-> TRUE, before |-> NewReserve, n |-> 0]
    /\ clock = MaxSlot
    /\ limiter = NoLimiter
    /\ accepted = <<>>
    /\ market = Idle
    /\ out = NoRoundTrip

\* deposit_liquidity(l), then redeem_collateral of the collateral it minted; a
\* failure of either leaves the reserve as it was
DepositThenRedeem ==
    \E l \in 1..MaxSupply :
        LET dep == deposit_liquidity(reserve, l)
            red == redeem_collateral(dep.r, dep.v)
            ok == dep.ok /\ red.ok
        IN /\ out.fn = "none"
           /\ reserve' = IF ok THEN red.r ELSE reserve
           /\ out' = [fn |-> "deposit_then_redeem", ok |-> ok, l |-> l,
                      minted |-> IF dep.ok THEN dep.v ELSE 0, before |-> reserve]
           /\ UNCHANGED <<config, last, clock, limiter, accepted, market>>

NextRoundTrip == DepositThenRedeem

SpecRoundTrip == InitRoundTrip /\ [][NextRoundTrip]_vars

\* C14: deposit_liquidity(l) followed at once by redeem_collateral of the collateral
\* the deposit minted restores mint_total_supply exactly and available_amount to
\* within 1 unit; borrowed_amount_wads, cumulative_borrow_rate_wads and
\* accumulated_protocol_fees_wads are unchanged.
C14_RoundTripWithinOneUnit ==
    out.fn = "deposit_then_redeem" /\ out.ok =>
        /\ reserve.mint_total_supply = out.before.mint_total_supply
        /\ reserve.available_amount - out.before.available_amount \in -1..1
        /\ reserve.borrowed_amount_wads = out.before.borrowed_amount_wads
        /\ reserve.cumulative_borrow_rate_wads = out.before.cumulative_borrow_rate_wads
        /\ reserve.accumulated_protocol_fees_wads
              = out.before.accumulated_protocol_fees_wads

----------------------------------------------------------------------------
(* The refresh of an obligation by the SDK, on obligations fetched from the chain:
   SpecOffchain *)

\* Reserves at price one, SOL and BONK with the added borrow weights given
OffchainReserves(sol_bps, bonk_bps) ==
    [id \in ReserveIds |->
        MarketReserve(SolConfig(CASE id = "SOL" -> sol_bps
                                  [] id = "BONK" -> bonk_bps
                                  [] OTHER -> 0),
                      0, Dec(1), Dec(1), MaxU64)]

\* The reserves borrowed from, in the order the borrows were opened
BorrowOrders ==
    { <<a>> : a \in ReserveIds } \cup
    { <<a, b>> : a \in ReserveIds, b \in ReserveIds } \cup
    { <<a, b, c>> : a \in ReserveIds, b \in ReserveIds, c \in ReserveIds }

\* An obligation as borrows leave it on the chain: one line for each reserve
OffchainObligation(deposited, order) ==
    [NewObligation EXCEPT
        !.deposits = << [deposit_reserve |-> "USDC", deposited_amount |-> deposited,
                         market_value |-> 0] >>,
        !.borrows = [i \in 1..Len(order) |->
                        [borrow_reserve |-> order[i],
                         cumulative_borrow_rate_wads |-> WAD,
                         borrowed_amount_wads |-> Dec(1),
                         market_value |-> 0]]]

InitOffchain ==
    /\ reserve = NewReserve
    /\ config = BaseConfig
    /\ last = [op |-> "new", ok |-> TRUE, v |-> 0, n |-> 0]
    /\ clock = 0
    /\ limiter = NoLimiter
    /\ accepted = <<>>
    /\ \E sol_bps \in {0, 5000}, bonk_bps \in {0, 5000}, deposited \in {1, 2} :
         \E order \in { q \in BorrowOrders :
                          \A i \in 1..Len(q), j \in 1..Len(q) : i # j => q[i] # q[j] } :
            market = [reserves |-> OffchainReserves(sol_bps, bonk_bps),
                      obligation |-> OffchainObligation(deposited, order),
                      switched |-> {}]
    /\ out = NotEvaluated

OffchainRefreshObligation ==
    LET res == offchain_refresh_obligation(market.obligation, market.reserves)
    IN /\ market' = IF res.ok THEN [market EXCEPT !.obligation = res.v] ELSE market
       /\ out' = [fn |-> "offchain_refresh_obligation",
                  r |-> IF res.ok THEN Ok(0) ELSE res]
       /\ UNCHANGED <<reserve, config, last, limiter, clock, accepted>>

NextOffchain == OffchainRefreshObligation

SpecOffchain == InitOffchain /\ [][NextOffchain]_vars

\* the obligation's borrows that are not zero
NonzeroBorrows ==
    { i \in 1..Len(market.obligation.borrows) :
        market.obligation.borrows[i].borrowed_amount_wads > 0 }

\* C15: after every obligation refresh, for every obligation with a borrow whose
\* borrowed_amount_wads > 0, borrows[0] is a nonzero borrow whose reserve has the
\* lexicographically greatest (added_borrow_weight_bps, mint_pubkey) among all
\* nonzero borrows of the obligation.
C15_GreatestWeightFirst ==
    out.fn = "offchain_refresh_obligation" /\ out.r.ok /\ NonzeroBorrows # {} =>
        /\ 1 \in NonzeroBorrows
        /\ \A j \in NonzeroBorrows :
              ~WeightGreater(market.reserves, market.obligation.borrows[j],
                             market.obligation.borrows[1])

\* the obligation as the refresh of the specification leaves it
SpecifiedRefresh == refresh_obligation(market.obligation, market.reserves, clock)

\* C26: after offchain_refresh_obligation the obligation has the aggregates of the
\* specified refresh: deposited_value, borrowed_value, borrowed_value_upper_bound,
\* allowed_borrow_value, unhealthy_borrow_value, super_unhealthy_borrow_value and
\* borrowing_isolated_asset are recomputed, zero entries are removed and the borrows
\* reordered.
C26_OffchainRefreshIsSpecifiedRefresh ==
    out.fn = "offchain_refresh_obligation" /\ out.r.ok =>
        /\ SpecifiedRefresh.ok
        /\ \A f \in {"deposited_value", "borrowed_value", "borrowed_value_upper_bound",
                     "allowed_borrow_value", "unhealthy_borrow_value",
                     "super_unhealthy_borrow_value", "borrowing_isolated_asset",
                     "deposits", "borrows"} :
              market.obligation[f] = SpecifiedRefresh.v[f]

\* C26, the part offchain_refresh_obligation does compute: the four values summed
\* from the deposits and borrows are those of the specified refresh
C26_SummedValuesAreSpecified ==
    out.fn = "offchain_refresh_obligation" /\ out.r.ok =>
        \A f \in {"deposited_value", "borrowed_value", "unhealthy_borrow_value",
                  "super_unhealthy_borrow_value"} :
            market.obligation[f] = SpecifiedRefresh.v[f]

\* C26, the part left as fetched: allowed_borrow_value and
\* borrowed_value_upper_bound are those of the specified refresh
C26_BoundsAreSpecified ==
    out.fn = "offchain_refresh_obligation" /\ out.r.ok =>
        /\ market.obligation.allowed_borrow_value = SpecifiedRefresh.v.allowed_borrow_value
        /\ market.obligation.borrowed_value_upper_bound
              = SpecifiedRefresh.v.borrowed_value_upper_bound

----------------------------------------------------------------------------
(* The deposit and borrow limits of a reserve under deposits, borrows, interest
   and config updates: SpecLimits *)

\* Deposit reserve liquidity: fails if available + l > deposit_limit
deposit_reserve_liquidity(r, c, l) ==
    IF l = 0 THEN Res(FALSE, r, "InvalidAmount")
    ELSE IF r.available_amount + l > c.deposit_limit THEN Res(FALSE, r, "InvalidAmount")
    ELSE deposit_liquidity(r, l)

\* the borrow of a reserve without the check of borrow_limit
borrow_over_limit(r, c, a) ==
    IF a = 0 THEN Res(FALSE, r, "InvalidAmount")
    ELSE liquidity_borrow(r, Dec(a))

\* The reserve's part of borrow obligation liquidity: a borrow above what is left
\* of borrow_limit fails with InvalidAmount
borrow_within_limit(r, c, a) ==
    LET remaining_reserve_capacity ==
            Max(0, Dec(c.borrow_limit) - r.borrowed_amount_wads)
    IN IF a = 0 THEN Res(FALSE, r, "InvalidAmount")
       ELSE IF Dec(a) > remaining_reserve_capacity THEN Res(FALSE, r, "InvalidAmount")
       ELSE liquidity_borrow(r, Dec(a))

\* Update reserve config: the owner sets any valid config; the risk authority only
\* lowers the limits and changes nothing else
update_config_by(signer, old, new) ==
    IF signer = "owner"
    THEN IF validate_reserve_config(new).ok THEN Ok(new) ELSE Err("InvalidConfig")
    ELSE Ok([old EXCEPT !.borrow_limit = Min(old.borrow_limit, new.borrow_limit),
                        !.deposit_limit = Min(old.deposit_limit, new.deposit_limit)])

Limits == {1, 2, MaxU64}

InitLimits ==
    /\ reserve = NewReserve
    /\ config \in { [BaseConfig EXCEPT !.deposit_limit = d, !.borrow_limit = b] :
                      d \in Limits, b \in Limits }
    /\ last = [op |-> "new", ok |-> TRUE, v |-> 0, arg |-> 0, n |-> 0]
    /\ clock = 0
    /\ limiter = NoLimiter
    /\ accepted = <<>>
    /\ market = Idle
    /\ out = <<>>

\* An instruction on the reserve: a failed one leaves the reserve as it was
LimitsStep(op, arg, res) ==
    /\ last.n < MaxOps
    /\ reserve' = IF res.ok THEN res.r ELSE reserve
    /\ last' = [op |-> op, ok |-> res.ok, v |-> IF res.ok THEN 0 ELSE res.v,
                arg |-> arg, n |-> last.n + 1]
    /\ UNCHANGED <<config, clock, limiter, accepted, market, out>>

LimitsDeposit ==
    \E l \in 1..MaxAmount :
        LimitsStep("deposit", l, deposit_reserve_liquidity(reserve, config, l))

LimitsBorrow ==
    \E a \in 1..MaxAmount :
        LimitsStep("borrow", a, borrow_within_limit(reserve, config, a))

LimitsAccrue ==
    LimitsStep("accrue_interest", clock,
               offchain_refresh_reserve_interest(reserve, config, clock))

LimitsUpdateConfig ==
    \E signer \in {"owner", "risk_authority"}, d \in Limits, b \in Limits :
        LET res == update_config_by(signer, config,
                       [config EXCEPT !.deposit_limit = d, !.borrow_limit = b])
        IN /\ last.n < MaxOps
           /\ config' = IF res.ok THEN res.v ELSE config
           /\ last' = [op |-> "update_reserve_config", ok |-> res.ok, v |-> 0,
                       arg |-> signer, n |-> last.n + 1]
           /\ UNCHANGED <<reserve, clock, limiter, accepted, market, out>>

LimitsTick ==
    /\ clock < MaxSlot
    /\ clock' = clock + 1
    /\ UNCHANGED <<reserve, config, last, limiter, accepted, market, out>>

NextLimits ==
    \/ LimitsDeposit
    \/ LimitsBorrow
    \/ LimitsAccrue
    \/ LimitsUpdateConfig
    \/ LimitsTick

SpecLimits == InitLimits /\ [][NextLimits]_vars

----------------------------------------------------------------------------
(* Liquidation and bad debt: SpecDebt *)

\* the share of an obligation's borrowed value that one liquidation may close, in
\* percent, and the greatest value one liquidation may close
LIQUIDATION_CLOSE_FACTOR == 20
MAX_LIQUIDATABLE_VALUE_AT_ONCE == 500000

\* Obligation::max_liquidation_amount
max_liquidation_amount(o, liquidity) ==
    LET max_liquidation_value ==
            Min(Min(DecMul(o.borrowed_value, FromPercent(LIQUIDATION_CLOSE_FACTOR)),
                    liquidity.market_value),
                Dec(MAX_LIQUIDATABLE_VALUE_AT_ONCE))
        max_liquidation_pct == DecDiv(max_liquidation_value, liquidity.market_value)
    IN IF ~max_liquidation_pct.ok THEN max_liquidation_pct
       ELSE Ok(DecMul(liquidity.borrowed_amount_wads, max_liquidation_pct.v))

\* calculate_liquidation without the limit of max_liquidation_amount
calculate_liquidation_no_close_factor(r, amount_to_liquidate, o, liquidity, collateral) ==
    LET b == calculate_bonus(r.config, o)
    IN IF ~b.ok THEN b ELSE
       LET bonus_rate == b.v + WAD
           max_amount ==
               IF amount_to_liquidate = MaxU64 THEN liquidity.borrowed_amount_wads
               ELSE Min(Dec(amount_to_liquidate), liquidity.borrowed_amount_wads)
           full == liquidity.market_value <= WAD
           mla == max_liquidation_amount(o, liquidity)
       IN IF ~full /\ ~mla.ok THEN mla ELSE
          LET liquidation_amount ==
                  IF full THEN liquidity.borrowed_amount_wads
                  ELSE max_amount
              liquidation_pct ==
                  IF full THEN Ok(WAD)
                  ELSE DecDiv(liquidation_amount, liquidity.borrowed_amount_wads)
          IN IF ~liquidation_pct.ok THEN liquidation_pct ELSE
             LET liquidation_value ==
                     IF full THEN DecMul(liquidity.market_value, bonus_rate)
                     ELSE DecMul(DecMul(liquidity.market_value, liquidation_pct.v),
                                 bonus_rate)
             IN IF liquidation_value > collateral.market_value
                THEN LET repay_pct == DecDiv(collateral.market_value, liquidation_value)
                         settle_amount == DecMul(liquidation_amount, repay_pct.v)
                     IN IF ~repay_pct.ok THEN repay_pct ELSE
                        Ok([settle_amount |-> settle_amount,
                            repay_amount |-> Ceil(settle_amount),
                            withdraw_amount |-> collateral.deposited_amount,
                            bonus_rate |-> bonus_rate])
                ELSE IF liquidation_value = collateral.market_value
                THEN Ok([settle_amount |-> liquidation_amount,
                         repay_amount |-> Ceil(liquidation_amount),
                         withdraw_amount |-> collateral.deposited_amount,
                         bonus_rate |-> bonus_rate])
                ELSE LET withdraw_pct == DecDiv(liquidation_value, collateral.market_value)
                         floored == Floor(DecMul(Dec(collateral.deposited_amount),
                                                 withdraw_pct.v))
                     IN IF ~withdraw_pct.ok THEN withdraw_pct
                        ELSE IF full /\ Ceil(liquidation_amount) = 0
                        THEN Err("LiquidationTooSmall")
                        ELSE Ok([settle_amount |-> liquidation_amount,
                                 repay_amount |-> Ceil(liquidation_amount),
                                 withdraw_amount |-> IF full THEN Max(floored, 1)
                                                     ELSE floored,
                                 bonus_rate |-> bonus_rate])

\* calculate_liquidation that takes every request for a request for the whole borrow
calculate_liquidation_any_request(r, amount_to_liquidate, o, liquidity, collateral) ==
    LET b == calculate_bonus(r.config, o)
    IN IF ~b.ok THEN b ELSE
       LET bonus_rate == b.v + WAD
           max_amount ==
               liquidity.borrowed_amount_wads
           full == liquidity.market_value <= WAD
           mla == max_liquidation_amount(o, liquidity)
       IN IF ~full /\ ~mla.ok THEN mla ELSE
          LET liquidation_amount ==
                  IF full THEN liquidity.borrowed_amount_wads
                  ELSE Min(mla.v, max_amount)
              liquidation_pct ==
                  IF full THEN Ok(WAD)
                  ELSE DecDiv(liquidation_amount, liquidity.borrowed_amount_wads)
          IN IF ~liquidation_pct.ok THEN liquidation_pct ELSE
             LET liquidation_value ==
                     IF full THEN DecMul(liquidity.market_value, bonus_rate)
                     ELSE DecMul(DecMul(liquidity.market_value, liquidation_pct.v),
                                 bonus_rate)
             IN IF liquidation_value > collateral.market_value
                THEN LET repay_pct == DecDiv(collateral.market_value, liquidation_value)
                         settle_amount == DecMul(liquidation_amount, repay_pct.v)
                     IN IF ~repay_pct.ok THEN repay_pct ELSE
                        Ok([settle_amount |-> settle_amount,
                            repay_amount |-> Ceil(settle_amount),
                            withdraw_amount |-> collateral.deposited_amount,
                            bonus_rate |-> bonus_rate])
                ELSE IF liquidation_value = collateral.market_value
                THEN Ok([settle_amount |-> liquidation_amount,
                         repay_amount |-> Ceil(liquidation_amount),
                         withdraw_amount |-> collateral.deposited_amount,
                         bonus_rate |-> bonus_rate])
                ELSE LET withdraw_pct == DecDiv(liquidation_value, collateral.market_value)
                         floored == Floor(DecMul(Dec(collateral.deposited_amount),
                                                 withdraw_pct.v))
                     IN IF ~withdraw_pct.ok THEN withdraw_pct
                        ELSE IF full /\ Ceil(liquidation_amount) = 0
                        THEN Err("LiquidationTooSmall")
                        ELSE Ok([settle_amount |-> liquidation_amount,
                                 repay_amount |-> Ceil(liquidation_amount),
                                 withdraw_amount |-> IF full THEN Max(floored, 1)
                                                     ELSE floored,
                                 bonus_rate |-> bonus_rate])

\* calculate_liquidation that withdraws one more than the share of the deposit rounded up
calculate_liquidation_withdraw_up(r, amount_to_liquidate, o, liquidity, collateral) ==
    LET b == calculate_bonus(r.config, o)
    IN IF ~b.ok THEN b ELSE
       LET bonus_rate == b.v + WAD
           max_amount ==
               IF amount_to_liquidate = MaxU64 THEN liquidity.borrowed_amount_wads
               ELSE Min(Dec(amount_to_liquidate), liquidity.borrowed_amount_wads)
           full == liquidity.market_value <= WAD
           mla == max_liquidation_amount(o, liquidity)
       IN IF ~full /\ ~mla.ok THEN mla ELSE
          LET liquidation_amount ==
                  IF full THEN liquidity.borrowed_amount_wads
                  ELSE Min(mla.v, max_amount)
              liquidation_pct ==
                  IF full THEN Ok(WAD)
                  ELSE DecDiv(liquidation_amount, liquidity.borrowed_amount_wads)
          IN IF ~liquidation_pct.ok THEN liquidation_pct ELSE
             LET liquidation_value ==
                     IF full THEN DecMul(liquidity.market_value, bonus_rate)
                     ELSE DecMul(DecMul(liquidity.market_value, liquidation_pct.v),
                                 bonus_rate)
             IN IF liquidation_value > collateral.market_value
                THEN LET repay_pct == DecDiv(collateral.market_value, liquidation_value)
                         settle_amount == DecMul(liquidation_amount, repay_pct.v)
                     IN IF ~repay_pct.ok THEN repay_pct ELSE
                        Ok([settle_amount |-> settle_amount,
                            repay_amount |-> Ceil(settle_amount),
                            withdraw_amount |-> collateral.deposited_amount,
                            bonus_rate |-> bonus_rate])
                ELSE IF liquidation_value = collateral.market_value
                THEN Ok([settle_amount |-> liquidation_amount,
                         repay_amount |-> Ceil(liquidation_amount),
                         withdraw_amount |-> collateral.deposited_amount,
                         bonus_rate |-> bonus_rate])
                ELSE LET withdraw_pct == DecDiv(liquidation_value, collateral.market_value)
                         floored == Ceil(DecMul(Dec(collateral.deposited_amount),
                                                withdraw_pct.v)) + 1
                     IN IF ~withdraw_pct.ok THEN withdraw_pct
                        ELSE IF full /\ Ceil(liquidation_amount) = 0
                        THEN Err("LiquidationTooSmall")
                        ELSE Ok([settle_amount |-> liquidation_amount,
                                 repay_amount |-> Ceil(liquidation_amount),
                                 withdraw_amount |-> IF full THEN Max(floored, 1)
                                                     ELSE floored,
                                 bonus_rate |-> bonus_rate])

\* Reserve::calculate_liquidation
calculate_liquidation(r, amount_to_liquidate, o, liquidity, collateral) ==
    LET b == calculate_bonus(r.config, o)
    IN IF ~b.ok THEN b ELSE
       LET bonus_rate == b.v + WAD
           max_amount ==
               IF amount_to_liquidate = MaxU64 THEN liquidity.borrowed_amount_wads
               ELSE Min(Dec(amount_to_liquidate), liquidity.borrowed_amount_wads)
           full == liquidity.market_value <= WAD
           mla == max_liquidation_amount(o, liquidity)
       IN IF ~full /\ ~mla.ok THEN mla ELSE
          LET liquidation_amount ==
                  IF full THEN liquidity.borrowed_amount_wads
                  ELSE Min(mla.v, max_amount)
              liquidation_pct ==
                  IF full THEN Ok(WAD)
                  ELSE DecDiv(liquidation_amount, liquidity.borrowed_amount_wads)
          IN IF ~liquidation_pct.ok THEN liquidation_pct ELSE
             LET liquidation_value ==
                     IF full THEN DecMul(liquidity.market_value, bonus_rate)
                     ELSE DecMul(DecMul(liquidity.market_value, liquidation_pct.v),
                                 bonus_rate)
             IN IF liquidation_value > collateral.market_value
                THEN LET repay_pct == DecDiv(collateral.market_value, liquidation_value)
                         settle_amount == DecMul(liquidation_amount, repay_pct.v)
                     IN IF ~repay_pct.ok THEN repay_pct ELSE
                        Ok([settle_amount |-> settle_amount,
                            repay_amount |-> Ceil(settle_amount),
                            withdraw_amount |-> collateral.deposited_amount,
                            bonus_rate |-> bonus_rate])
                ELSE IF liquidation_value = collateral.market_value
                THEN Ok([settle_amount |-> liquidation_amount,
                         repay_amount |-> Ceil(liquidation_amount),
                         withdraw_amount |-> collateral.deposited_amount,
                         bonus_rate |-> bonus_rate])
                ELSE LET withdraw_pct == DecDiv(liquidation_value, collateral.market_value)
                         floored == Floor(DecMul(Dec(collateral.deposited_amount),
                                                 withdraw_pct.v))
                     IN IF ~withdraw_pct.ok THEN withdraw_pct
                        ELSE IF full /\ Ceil(liquidation_amount) = 0
                        THEN Err("LiquidationTooSmall")
                        ELSE Ok([settle_amount |-> liquidation_amount,
                                 repay_amount |-> Ceil(liquidation_amount),
                                 withdraw_amount |-> IF full THEN Max(floored, 1)
                                                     ELSE floored,
                                 bonus_rate |-> bonus_rate])

\* Obligation::repay: the borrow is settled, and its line removed once nothing is owed
obligation_repay(o, settle_amount, i) ==
    [o EXCEPT !.borrows =
        IF settle_amount = o.borrows[i].borrowed_amount_wads
        THEN RemoveAt(o.borrows, i)
        ELSE [o.borrows EXCEPT ![i].borrowed_amount_wads = @ - settle_amount]]

\* Obligation::withdraw: collateral leaves, and its line with the last of it
obligation_withdraw(o, withdraw_amount, i) ==
    [o EXCEPT !.deposits =
        IF withdraw_amount = o.deposits[i].deposited_amount
        THEN RemoveAt(o.deposits, i)
        ELSE [o.deposits EXCEPT ![i].deposited_amount = @ - withdraw_amount]]

\* Liquidate obligation and redeem reserve collateral: the borrow on repay_id is
\* repaid, collateral of withdraw_id is withdrawn and redeemed; the target is the
\* first borrow of the obligation
liquidate_obligation(m, repay_id, withdraw_id, liquidity_amount, slot) ==
    LET repay_reserve == m.reserves[repay_id]
        withdraw_reserve == m.reserves[withdraw_id]
        o == m.obligation
        i == BorrowIndex(o, repay_id)
        j == DepositIndex(o, withdraw_id)
    IN IF liquidity_amount = 0 THEN Err("InvalidAmount")
       ELSE IF ~Fresh(repay_reserve, slot) THEN Err("ReserveStale")
       ELSE IF ~Fresh(withdraw_reserve, slot) THEN Err("ReserveStale")
       ELSE IF ~Fresh(o, slot) THEN Err("ObligationStale")
       ELSE IF o.deposited_value = 0 THEN Err("ObligationDepositsZero")
       ELSE IF o.borrowed_value = 0 THEN Err("ObligationBorrowsZero")
       ELSE IF i = 0 THEN Err("InvalidObligationLiquidity")
       ELSE IF i # 1 THEN Err("InvalidAccountInput")
       ELSE IF o.borrows[i].market_value = 0 THEN Err("ObligationLiquidityEmpty")
       ELSE IF j = 0 THEN Err("InvalidObligationCollateral")
       ELSE IF o.deposits[j].market_value = 0 THEN Err("ObligationCollateralEmpty")
       ELSE LET c == calculate_liquidation(withdraw_reserve, liquidity_amount, o,
                                           o.borrows[i], o.deposits[j])
            IN IF ~c.ok THEN c
               ELSE IF c.v.repay_amount = 0 \/ c.v.withdraw_amount = 0
               THEN Err("LiquidationTooSmall")
               ELSE LET rp == liquidity_repay(repay_reserve, c.v.repay_amount,
                                              c.v.settle_amount)
                        rd == redeem_collateral(withdraw_reserve, c.v.withdraw_amount)
                    IN IF ~rp.ok THEN Err(rp.v)
                       ELSE IF ~rd.ok THEN Err(rd.v)
                       ELSE Ok([m EXCEPT
                                !.reserves =
                                   [[@ EXCEPT ![withdraw_id] =
                                                 [rd.r EXCEPT !.stale = TRUE]]
                                       EXCEPT ![repay_id] =
                                                 [rp.r EXCEPT !.stale = TRUE]],
                                !.obligation =
                                   [obligation_withdraw(
                                        obligation_repay(o, c.v.settle_amount, i),
                                        c.v.withdraw_amount, j)
                                      EXCEPT !.stale = TRUE]])

\* Forgive debt: the market's owner writes off what an obligation without
\* collateral still owes to a reserve
process_forgive_debt(m, id, liquidity_amount, slot) ==
    LET r == m.reserves[id]
        o == m.obligation
        i == BorrowIndex(o, id)
    IN IF liquidity_amount = 0 THEN Err("InvalidAmount")
       ELSE IF ~Fresh(r, slot) THEN Err("ReserveStale")
       ELSE IF ~Fresh(o, slot) THEN Err("ObligationStale")
       ELSE IF o.deposits # <<>> THEN Err("InvalidAccountInput")
       ELSE IF i = 0 THEN Err("InvalidObligationLiquidity")
       ELSE LET forgive_amount ==
                    IF liquidity_amount = MaxU64 THEN o.borrows[i].borrowed_amount_wads
                    ELSE Min(Dec(liquidity_amount), o.borrows[i].borrowed_amount_wads)
                f == forgive_debt(r, forgive_amount)
            IN IF ~f.ok THEN Err(f.v)
               ELSE Ok([m EXCEPT
                        !.reserves[id] = [f.r EXCEPT !.stale = TRUE],
                        !.obligation =
                           [obligation_repay(o, forgive_amount, i)
                              EXCEPT !.stale = TRUE]])

\* Withdraw obligation collateral and redeem reserve collateral: what the
\* obligation gives up is redeemed from the reserve for liquidity
withdraw_obligation_collateral_and_redeem(m, id, collateral_amount, slot) ==
    LET w == withdraw_obligation_collateral(m, id, collateral_amount, slot)
    IN IF ~w.ok THEN w ELSE
       LET i == DepositIndex(m.obligation, id)
           k == DepositIndex(w.v.obligation, id)
           withdrawn == m.obligation.deposits[i].deposited_amount
                        - (IF k = 0 THEN 0 ELSE w.v.obligation.deposits[k].deposited_amount)
           rd == redeem_collateral(m.reserves[id], withdrawn)
       IN IF ~rd.ok THEN Err(rd.v)
          ELSE Ok([w.v EXCEPT !.reserves[id] = [rd.r EXCEPT !.stale = TRUE]])

DebtReserveIds == {"USDC", "SOL"}

\* liquidity of each reserve that no obligation of the model holds or owes
DebtIdle == 2
\* the most the obligation has deposited or borrowed at the start
MaxDebt == 2

\* The market with `deposited` USDC of collateral and `borrowed` SOL owed at the
\* prices given, everything refreshed at slot 0; without collateral the
\* obligation is what a liquidation left behind
DebtMarket(deposited, borrowed, usdc_price, sol_price) ==
    LET usdc == MarketReserve(SolConfig(0), 0, usdc_price, usdc_price,
                              deposited + DebtIdle)
        sol == [MarketReserve(SolConfig(0), 0, sol_price, sol_price, DebtIdle + borrowed)
                  EXCEPT !.available_amount = DebtIdle,
                         !.borrowed_amount_wads = Dec(borrowed)]
        rs == [id \in DebtReserveIds |-> IF id = "USDC" THEN usdc ELSE sol]
        o == [NewObligation EXCEPT
                !.deposits =
                    IF deposited = 0 THEN <<>>
                    ELSE << [deposit_reserve |-> "USDC",
                             deposited_amount |-> deposited, market_value |-> 0] >>,
                !.borrows =
                    IF borrowed = 0 THEN <<>>
                    ELSE << [borrow_reserve |-> "SOL",
                             cumulative_borrow_rate_wads |-> WAD,
                             borrowed_amount_wads |-> Dec(borrowed),
                             market_value |-> 0] >>]
    IN [reserves |-> rs, obligation |-> refresh_obligation(o, rs, 0).v, switched |-> {}]

\* how many instructions changed the obligation, and what has been refreshed since
\* the last of them
NothingRefreshed == [mutated |-> 0, reserves |-> {}, obligation |-> FALSE]

InitDebt ==
    /\ reserve = NewReserve
    /\ config = BaseConfig
    /\ clock = 0
    /\ limiter = NoLimiter
    /\ accepted = <<>>
    /\ \E d \in 0..MaxDebt, b \in 0..MaxDebt, pu \in {100, Dec(1)},
          ps \in {Dec(1), Dec(2)} :
          /\ d + b > 0
          /\ market = DebtMarket(d, b, pu, ps)
          /\ last = [op |-> "new", ok |-> TRUE, v |-> "Ok", n |-> 0, arg |-> 0,
                     before |-> market, id |-> ""]
    /\ out = NothingRefreshed

DebtMutating == {"borrow_obligation_liquidity",
                 "withdraw_obligation_collateral_and_redeem_reserve_collateral",
                 "liquidate_obligation_and_redeem_reserve_collateral",
                 "forgive_debt"}

\* An instruction on the market: a failed one leaves the accounts as they were
DebtInstruction(op, arg, res, id) ==
    /\ last.n < MaxOps
    /\ market' = IF res.ok THEN res.v ELSE market
    /\ last' = [op |-> op, ok |-> res.ok, v |-> IF res.ok THEN "Ok" ELSE res.v,
                n |-> last.n + 1, arg |-> arg, before |-> market, id |-> id]
    /\ out' = IF ~res.ok THEN out
              ELSE IF op \in DebtMutating
              THEN [mutated |-> out.mutated + 1, reserves |-> {}, obligation |-> FALSE]
              ELSE IF op = "refresh_reserve"
              THEN [out EXCEPT !.reserves = @ \cup {id}]
              ELSE [out EXCEPT !.obligation = TRUE]
    /\ UNCHANGED <<reserve, config, limiter, clock, accepted>>

DebtRefreshReserve ==
    \E id \in DebtReserveIds :
        LET res == offchain_refresh_reserve(market.reserves[id], clock,
                                            <<market.reserves[id].market_price>>)
        IN DebtInstruction("refresh_reserve", 0,
                           IF res.ok THEN Ok([market EXCEPT !.reserves[id] = res.r])
                           ELSE Err(res.v), id)

DebtRefreshObligation ==
    DebtInstruction("refresh_obligation", 0,
                    refresh_obligation_instruction(market, clock), "")

DebtBorrow ==
    \E a \in {1, MaxU64} :
        DebtInstruction("borrow_obligation_liquidity", a,
                        borrow_obligation_liquidity(market, "SOL", a, clock), "SOL")

DebtWithdraw ==
    \E a \in {1, MaxU64} :
        DebtInstruction("withdraw_obligation_collateral_and_redeem_reserve_collateral", a,
                        withdraw_obligation_collateral_and_redeem(
                            market, "USDC", a, clock), "USDC")

DebtLiquidate ==
    \E a \in {1, MaxU64} :
        DebtInstruction("liquidate_obligation_and_redeem_reserve_collateral", a,
                        liquidate_obligation(market, "SOL", "USDC", a, clock), "SOL")

DebtForgive ==
    \E a \in {1, MaxU64} :
        DebtInstruction("forgive_debt", a,
                        process_forgive_debt(market, "SOL", a, clock), "SOL")

DebtTick ==
    /\ clock < MaxMarketSlot
    /\ clock' = clock + 1
    /\ last' = [last EXCEPT !.op = "tick", !.ok = TRUE, !.v = "Ok"]
    /\ UNCHANGED <<reserve, config, limiter, accepted, market, out>>

NextDebt ==
    \/ DebtRefreshReserve
    \/ DebtRefreshObligation
    \/ DebtBorrow
    \/ DebtWithdraw
    \/ DebtLiquidate
    \/ DebtForgive
    \/ DebtTick

SpecDebt == InitDebt /\ [][NextDebt]_vars

\* the last instruction forgave all that the obligation owed to SOL
ForgaveAll ==
    /\ last.op = "forgive_debt"
    /\ last.ok
    /\ BorrowIndex(last.before.obligation, "SOL") # 0
    /\ \/ last.arg = MaxU64
       \/ Dec(last.arg) >= last.before.obligation.borrows[
                               BorrowIndex(last.before.obligation, "SOL")].borrowed_amount_wads

\* what the obligation owed to SOL before the last instruction
OwedBefore ==
    last.before.obligation.borrows[
        BorrowIndex(last.before.obligation, "SOL")].borrowed_amount_wads

\* the forgiven amount left the reserve's borrowed_amount_wads and nothing else
ReserveForgiven ==
    /\ market.reserves["SOL"].borrowed_amount_wads
          = last.before.reserves["SOL"].borrowed_amount_wads - OwedBefore
    /\ market.reserves["SOL"].mint_total_supply
          = last.before.reserves["SOL"].mint_total_supply
    /\ market.reserves["SOL"].available_amount
          = last.before.reserves["SOL"].available_amount

\* C18 as stated: forgiving the whole residual borrow of an obligation without
\* deposits removes the borrow line, leaves borrowed_value = 0 and
\* allowed_borrow_value = 0, and takes the forgiven amount from the reserve's
\* borrowed_amount_wads with mint_total_supply and available_amount unchanged.
C18_ForgivenObligationValuedZero ==
    ForgaveAll =>
        /\ BorrowIndex(market.obligation, "SOL") = 0
        /\ market.obligation.borrowed_value = 0
        /\ market.obligation.allowed_borrow_value = 0
        /\ ReserveForgiven

\* C18 amended: forgiving the whole residual borrow removes the borrow line and
\* marks the obligation and the reserve stale; allowed_borrow_value is 0 and
\* borrowed_value keeps the value of the last refresh until the next one; the
\* reserve's borrowed_amount_wads falls by the forgiven amount with mint_total_supply
\* and available_amount unchanged.
C18_ForgivenObligationStale ==
    ForgaveAll =>
        /\ BorrowIndex(market.obligation, "SOL") = 0
        /\ market.obligation.borrowed_value = last.before.obligation.borrowed_value
        /\ market.obligation.allowed_borrow_value = 0
        /\ market.obligation.stale
        /\ market.reserves["SOL"].stale
        /\ ReserveForgiven

\* a debt with a value was forgiven whole
C18_Witness ==
    /\ ForgaveAll
    /\ OwedBefore > 0
    /\ market.obligation.borrows = <<>>
    /\ market.obligation.borrowed_value > 0

\* the instructions of the claim that need the obligation's risk evaluated
DebtRisky == DebtMutating \ {"forgive_debt"}

\* a successful instruction that changed the obligation left it, and each reserve
\* it changed, stale
StaleAfterChange ==
    (last.op \in DebtMutating /\ last.ok) =>
        /\ market.obligation.stale
        /\ market.reserves[last.id].stale
        /\ last.op = "liquidate_obligation_and_redeem_reserve_collateral"
              => market.reserves["USDC"].stale

\* a successful refresh left last_update = (current slot, not stale)
FreshAfterRefresh ==
    /\ (last.op = "refresh_reserve" /\ last.ok)
          => Fresh(market.reserves[last.id], clock)
    /\ (last.op = "refresh_obligation" /\ last.ok)
          => Fresh(market.obligation, clock)

----------------------------------------------------------------------------
(* Validation of reserve configurations: SpecValidate *)

\* BaseConfig with the flash loan fee that the fees of a config carry
FlashConfig ==
    [k \in DOMAIN BaseConfig \cup {"flash_loan_fee_wad"} |->
        IF k = "flash_loan_fee_wad" THEN 0 ELSE BaseConfig[k]]

\* Configs around the limits of the percentages, the bonus and the type
ValidatePercentConfigs ==
    { [FlashConfig EXCEPT !.optimal_utilization_rate = ou,
                          !.max_utilization_rate = mu,
                          !.loan_to_value_ratio = ltv,
                          !.liquidation_threshold = lt,
                          !.max_liquidation_threshold = mlt,
                          !.max_liquidation_bonus = mlb,
                          !.protocol_liquidation_fee = plf,
                          !.reserve_type = t] :
        ou \in {50, 101}, mu \in {49, 80, 101}, ltv \in {0, 50, 100},
        lt \in {0, 49, 60, 101}, mlt \in {59, 80, 101}, mlb \in {9, 20, 24, 25, 101},
        plf \in {10, 50, 51}, t \in {"Regular", "Isolated"} }

\* Configs around the limits of the borrow rates, the fees and the take rate
ValidateRateConfigs ==
    { [FlashConfig EXCEPT !.liquidation_bonus = lb,
                          !.min_borrow_rate = mn,
                          !.optimal_borrow_rate = op,
                          !.super_max_borrow_rate = sm,
                          !.borrow_fee_wad = bf,
                          !.flash_loan_fee_wad = ff,
                          !.host_fee_percentage = h,
                          !.protocol_take_rate = tr] :
        lb \in {10, 21, 101}, mn \in {10, 51}, op \in {50, 101}, sm \in {99, 100, 200},
        bf \in {0, WAD - 1, WAD}, ff \in {0, WAD - 1, WAD, WAD + 1},
        h \in {0, 100, 101}, tr \in {0, 100, 101} }

NotValidated == [fn |-> "none"]

InitValidate ==
    /\ reserve = NewReserve
    /\ config \in ValidatePercentConfigs \cup ValidateRateConfigs
    /\ last = [op |-> "new", ok |-> TRUE, before |-> NewReserve, n |-> 0]
    /\ clock = 0
    /\ limiter = NoLimiter
    /\ accepted = <<>>
    /\ market = Idle
    /\ out = NotValidated

NextValidate == ValidateReserveConfig

SpecValidate == InitValidate /\ [][NextValidate]_vars

\* the constraints of the data model on a config
SatisfiesDataModel(c) ==
    /\ c.optimal_utilization_rate <= c.max_utilization_rate
    /\ c.max_utilization_rate <= 100
    /\ c.loan_to_value_ratio < 100
    /\ c.liquidation_bonus <= c.max_liquidation_bonus
    /\ c.max_liquidation_bonus <= 100
    /\ c.loan_to_value_ratio <= c.liquidation_threshold
    /\ c.liquidation_threshold <= c.max_liquidation_threshold
    /\ c.max_liquidation_threshold <= 100
    /\ c.min_borrow_rate <= c.optimal_borrow_rate
    /\ c.optimal_borrow_rate <= c.max_borrow_rate
    /\ c.max_borrow_rate <= c.super_max_borrow_rate
    /\ c.borrow_fee_wad < WAD
    /\ c.flash_loan_fee_wad < WAD
    /\ c.host_fee_percentage <= 100
    /\ c.protocol_liquidation_fee <= 50
    /\ c.max_liquidation_bonus * 100 + c.protocol_liquidation_fee * 10 <= 2500
    /\ c.protocol_take_rate <= 100
    /\ c.reserve_type = "Isolated"
          => c.loan_to_value_ratio = 0 /\ c.liquidation_threshold = 0

\* C19: validate_reserve_config returns Ok exactly for the configs that satisfy
\* every constraint of the data model, and InvalidConfig for every other config.
C19_ValidExactlyDataModel ==
    out.fn = "validate_reserve_config" =>
        /\ out.r.ok <=> SatisfiesDataModel(config)
        /\ out.r.ok \/ out.r.v = "InvalidConfig"

----------------------------------------------------------------------------
(* calculate_borrow on its inputs: SpecBorrow *)

\* Reserves with the market price above, at and below the smoothed price, a mint
\* with and without decimals, a borrow weight, a borrow fee and liquidity to lend
BorrowReserves ==
    { [MarketReserve([BaseConfig EXCEPT !.added_borrow_weight_bps = bps,
                                        !.borrow_fee_wad = f,
                                        !.host_fee_percentage = h],
                     decimals, price, smoothed, MaxU64)
         EXCEPT !.available_amount = available] :
        price \in {333, Dec(1), 1500}, smoothed \in {500, Dec(1)},
        decimals \in {0, 1}, bps \in {0, 3333, 10000}, f \in {0, 10, 100, 500},
        h \in {0, 20}, available \in {0, 1, MaxU64} }

\* max_borrow_value and remaining_reserve_borrow are Decimals
BorrowValues == {0, 1, 999, Dec(1), 2500, Dec(MaxU64)}
BorrowRemaining == {0, 1500, Dec(MaxU64)}

NotBorrowed == [fn |-> "none"]

InitBorrow ==
    /\ reserve \in BorrowReserves
    /\ config = BaseConfig
    /\ last = [op |-> "new", ok |-> TRUE, before |-> NewReserve, n |-> 0]
    /\ clock = 0
    /\ limiter = NoLimiter
    /\ accepted = <<>>
    /\ market = Idle
    /\ out = NotBorrowed

CalculateBorrow ==
    /\ out.fn = "none"
    /\ \E a \in (1..MaxAmount) \cup {MaxU64}, mv \in BorrowValues,
          rem \in BorrowRemaining :
          out' = [fn |-> "calculate_borrow", amount_to_borrow |-> a,
                  max_borrow_value |-> mv, remaining_reserve_borrow |-> rem,
                  r |-> calculate_borrow(reserve, a, mv, rem)]
    /\ UNCHANGED <<reserve, config, last, limiter, clock, accepted, market>>

NextBorrow == CalculateBorrow

SpecBorrow == InitBorrow /\ [][NextBorrow]_vars

\* the weighted upper bound of the value of a borrowed amount
WeightedUpperBound(amount) ==
    DecMul(market_value_upper_bound(reserve, amount), borrow_weight(reserve))

\* the explicit request with its fee, when the fee can be computed
ExplicitWithFee ==
    Dec(out.amount_to_borrow)
       + Dec(calculate_borrow_fees(reserve.config, Dec(out.amount_to_borrow),
                                   "Exclusive").v.borrow_fee)

\* C21: every successful calculate_borrow, for an explicit amount or for the most
\* that can be borrowed, returns a borrow_amount whose upper-bound market value
\* times the borrow weight is at most max_borrow_value; an explicit request whose
\* amount plus fee is valued above it fails with BorrowTooLarge.
C21_BorrowValueWithinMax ==
    out.fn = "calculate_borrow" =>
        /\ out.r.ok => WeightedUpperBound(out.r.v.borrow_amount) <= out.max_borrow_value
        /\ (/\ out.amount_to_borrow # MaxU64
            /\ calculate_borrow_fees(reserve.config, Dec(out.amount_to_borrow),
                                     "Exclusive").ok
            /\ WeightedUpperBound(ExplicitWithFee) > out.max_borrow_value)
           => ~out.r.ok /\ out.r.v = "BorrowTooLarge"

\* the most was asked for and a positive amount, limited by max_borrow_value
\* alone, came back
C21_Witness ==
    /\ out.fn = "calculate_borrow"
    /\ out.amount_to_borrow = MaxU64
    /\ out.r.ok
    /\ out.r.v.borrow_amount > 0
    /\ out.r.v.borrow_amount < Dec(reserve.available_amount)
    /\ out.r.v.borrow_amount < out.remaining_reserve_borrow
    /\ reserve.config.added_borrow_weight_bps > 0

\* C29 as stated: with borrow_fee_wad > 0, every successful calculate_borrow, for an
\* explicit amount or for the most that can be borrowed, has receive_amount >= 1 and
\* receive_amount + borrow_fee = floor(borrow_amount).
C29_ReceivesAfterFees ==
    (out.fn = "calculate_borrow" /\ reserve.config.borrow_fee_wad > 0 /\ out.r.ok) =>
        /\ out.r.v.receive_amount >= 1
        /\ out.r.v.receive_amount + out.r.v.borrow_fee = Floor(out.r.v.borrow_amount)

----------------------------------------------------------------------------
(* calculate_liquidation on its inputs: SpecLiquidation *)

\* the bonus of the reserve the collateral is withdrawn from; the second as in the
\* tests of calculate_liquidation
LiquidationConfigs ==
    { BaseConfig,
      [BaseConfig EXCEPT !.liquidation_bonus = 5, !.max_liquidation_bonus = 5,
                         !.protocol_liquidation_fee = 0],
      [BaseConfig EXCEPT !.liquidation_bonus = 0, !.max_liquidation_bonus = 0,
                         !.protocol_liquidation_fee = 0] }

\* The borrow to liquidate: what is owed and its market value, from dust to several
\* units of the quote currency
LiquidationBorrows ==
    { [borrow_reserve |-> "SOL", cumulative_borrow_rate_wads |-> WAD,
       borrowed_amount_wads |-> b, market_value |-> mv] :
        b \in {500, Dec(1), 2500, Dec(MaxU64 - 1)},
        mv \in {500, Dec(1), 1500, Dec(3), Dec(8)} }

\* The collateral to withdraw: a deposit and its market value
LiquidationDeposits ==
    { [deposit_reserve |-> "USDC", deposited_amount |-> d, market_value |-> mv] :
        d \in {1, 2, MaxU64}, mv \in {1, 300, Dec(1), 1575, Dec(2), Dec(10)} }

\* An obligation with the borrow and the deposit: the borrow alone at weight one,
\* at weight two, or next to other borrows; below, at and above each threshold
LiquidationObligations(liquidity, collateral) ==
    UNION { { [NewObligation EXCEPT
                 !.deposits = <<collateral>>,
                 !.borrows = <<liquidity>>,
                 !.deposited_value = collateral.market_value,
                 !.borrowed_value = k * liquidity.market_value,
                 !.unhealthy_borrow_value = u,
                 !.super_unhealthy_borrow_value = u + g] :
               u \in {liquidity.market_value \div 2, liquidity.market_value,
                      k * liquidity.market_value + 1},
               g \in {0, liquidity.market_value} } :
            k \in {1, 2, 5} }

NotLiquidated == [fn |-> "none"]

InitLiquidation ==
    /\ reserve = NewReserve
    /\ config \in LiquidationConfigs
    /\ last = [op |-> "new", ok |-> TRUE, before |-> NewReserve, n |-> 0]
    /\ clock = 0
    /\ limiter = NoLimiter
    /\ accepted = <<>>
    /\ \E liquidity \in LiquidationBorrows, collateral \in LiquidationDeposits :
          \E o \in LiquidationObligations(liquidity, collateral) :
             market = [reserves |-> <<>>, obligation |-> o]
    /\ out = NotLiquidated

CalculateLiquidation ==
    /\ out.fn = "none"
    /\ \E a \in (1..MaxAmount) \cup {MaxU64} :
          out' = [fn |-> "calculate_liquidation", amount_to_liquidate |-> a,
                  r |-> calculate_liquidation([config |-> config], a, market.obligation,
                                              market.obligation.borrows[1],
                                              market.obligation.deposits[1])]
    /\ UNCHANGED <<reserve, config, last, limiter, clock, accepted, market>>

NextLiquidation == CalculateLiquidation

SpecLiquidation == InitLiquidation /\ [][NextLiquidation]_vars

\* the borrow and the deposit that calculate_liquidation was called on
Liquidity == market.obligation.borrows[1]
Collateral == market.obligation.deposits[1]

\* calculate_liquidation succeeded in the normal regime
LiquidatedNormal ==
    /\ out.fn = "calculate_liquidation"
    /\ out.r.ok
    /\ Liquidity.market_value > WAD

\* C22 as stated: in the normal regime, for every requested amount and every
\* obligation, settle_amount is at most LIQUIDATION_CLOSE_FACTOR percent of the
\* borrowed_amount_wads of the borrow liquidated.
C22_SettleWithinCloseFactorOfBorrow ==
    LiquidatedNormal =>
        out.r.v.settle_amount * 100
            <= Liquidity.borrowed_amount_wads * LIQUIDATION_CLOSE_FACTOR

\* C22 amended: in the normal regime settle_amount is at most the borrow, and its
\* share of the borrow's market value is at most LIQUIDATION_CLOSE_FACTOR percent of
\* the obligation's borrowed_value; this is LIQUIDATION_CLOSE_FACTOR percent of the
\* borrow when the borrow's market value is all of borrowed_value.
C22_SettleWithinCloseFactorOfObligation ==
    LiquidatedNormal =>
        /\ out.r.v.settle_amount <= Liquidity.borrowed_amount_wads
        /\ DecMul(out.r.v.settle_amount, Liquidity.market_value)
              <= DecMul(Liquidity.borrowed_amount_wads,
                        DecMul(market.obligation.borrowed_value,
                               FromPercent(LIQUIDATION_CLOSE_FACTOR)))
        /\ market.obligation.borrowed_value = Liquidity.market_value
              => out.r.v.settle_amount * 100
                    <= Liquidity.borrowed_amount_wads * LIQUIDATION_CLOSE_FACTOR

\* more than the close factor's share of the borrow was settled, the obligation
\* owing more than this borrow's market value
C22_Witness ==
    /\ LiquidatedNormal
    /\ out.amount_to_liquidate = MaxU64
    /\ market.obligation.borrowed_value > Liquidity.market_value
    /\ out.r.v.settle_amount * 100
          > Liquidity.borrowed_amount_wads * LIQUIDATION_CLOSE_FACTOR

\* the liquidation value of the debt settled: its share of the borrow's market value
\* times bonus_rate
SettledLiquidationValue ==
    DecMul(DecMul(Liquidity.market_value,
                  DecDiv(out.r.v.settle_amount, Liquidity.borrowed_amount_wads).v),
           out.r.v.bonus_rate)

\* C27 as stated: for every requested amount other than u64::MAX for which
\* calculate_liquidation succeeds, in the normal regime and in the dust regime,
\* repay_amount is at most the amount requested.
C27_RepayWithinRequest ==
    (out.fn = "calculate_liquidation" /\ out.r.ok /\ out.amount_to_liquidate # MaxU64)
        => out.r.v.repay_amount <= out.amount_to_liquidate

\* C27 amended: in the normal regime repay_amount is at most the amount requested;
\* in the dust regime the request is not looked at, the result is that of a request
\* for u64::MAX, and repay_amount is at most the whole borrow rounded up.
C27_RepayWithinRequestUnlessDust ==
    (out.fn = "calculate_liquidation" /\ out.r.ok /\ out.amount_to_liquidate # MaxU64)
        => IF Liquidity.market_value > WAD
           THEN out.r.v.repay_amount <= out.amount_to_liquidate
           ELSE /\ out.r = calculate_liquidation([config |-> config], MaxU64,
                                                 market.obligation, Liquidity, Collateral)
                /\ out.r.v.repay_amount <= Ceil(Liquidity.borrowed_amount_wads)

\* a dust borrow was liquidated for more than the amount requested
C27_Witness ==
    /\ out.fn = "calculate_liquidation"
    /\ out.r.ok
    /\ out.amount_to_liquidate # MaxU64
    /\ Liquidity.market_value <= WAD
    /\ out.r.v.repay_amount > out.amount_to_liquidate

\* C30 as stated: every successful calculate_liquidation withdraws at most the
\* deposit and settles at most the borrow; in the normal regime the market value of
\* the collateral withdrawn is at most the market value of the debt settled times
\* bonus_rate.
C30_WithdrawWithinBonus ==
    (out.fn = "calculate_liquidation" /\ out.r.ok) =>
        /\ out.r.v.withdraw_amount <= Collateral.deposited_amount
        /\ out.r.v.settle_amount <= Liquidity.borrowed_amount_wads
        /\ Liquidity.market_value > WAD
              => Dec(out.r.v.withdraw_amount) * Collateral.market_value
                    <= Dec(Collateral.deposited_amount) * SettledLiquidationValue

\* C30 amended: every successful calculate_liquidation withdraws at most the deposit
\* and settles at most the borrow; in the normal regime, when less than the whole
\* deposit is withdrawn, the market value of the collateral withdrawn is at most the
\* market value of the debt settled times bonus_rate; when the whole deposit is
\* withdrawn the debt settled is scaled to the collateral and rounded down.
C30_WithdrawWithinBonusOfPartial ==
    (out.fn = "calculate_liquidation" /\ out.r.ok) =>
        /\ out.r.v.withdraw_amount <= Collateral.deposited_amount
        /\ out.r.v.settle_amount <= Liquidity.borrowed_amount_wads
        /\ (/\ Liquidity.market_value > WAD
            /\ out.r.v.withdraw_amount < Collateral.deposited_amount)
              => Dec(out.r.v.withdraw_amount) * Collateral.market_value
                    <= Dec(Collateral.deposited_amount) * SettledLiquidationValue

\* part of the deposit was withdrawn for a debt settled in the normal regime
C30_Witness ==
    /\ LiquidatedNormal
    /\ out.r.v.withdraw_amount >= 1
    /\ out.r.v.withdraw_amount < Collateral.deposited_amount
    /\ out.r.v.settle_amount > 0

----------------------------------------------------------------------------
(* calculate_protocol_liquidation_fee on its inputs: SpecProtocolFee *)

\* calculate_protocol_liquidation_fee without the minimum of 1
calculate_protocol_liquidation_fee_no_min(c, amount_liquidated, bonus_rate) ==
    LET nonbonus_amount == DecDiv(Dec(amount_liquidated), bonus_rate)
    IN IF ~nonbonus_amount.ok THEN nonbonus_amount
       ELSE Ok(Ceil(DecMul(nonbonus_amount.v, FromDecaBps(c.protocol_liquidation_fee))))

\* Reserve::calculate_protocol_liquidation_fee
calculate_protocol_liquidation_fee(c, amount_liquidated, bonus_rate) ==
    LET amount_liquidated_wads == Dec(amount_liquidated)
        nonbonus_amount == DecDiv(amount_liquidated_wads, bonus_rate)
    IN IF ~nonbonus_amount.ok THEN nonbonus_amount
       ELSE LET protocol_fee ==
                    Max(Ceil(DecMul(nonbonus_amount.v,
                                    FromDecaBps(c.protocol_liquidation_fee))),
                        1)
            IN Ok(protocol_fee)

\* protocol_liquidation_fee settings in deca bps, those of the test among them
ProtocolFeeConfigs ==
    { [BaseConfig EXCEPT !.protocol_liquidation_fee = plf] : plf \in {0, 1, 10, 20, 50} }

\* amounts liquidated, 105 of the test among them
ProtocolFeeAmounts == {0, 1, 2, MaxU64, 105, 1000}

\* bonus rates: none, 5% of the test, 11%, the cap of 25%; and a zero rate
ProtocolFeeBonusRates == {0, WAD, FromPercent(105), FromPercent(111), FromPercent(125)}

InitProtocolFee ==
    /\ reserve = NewReserve
    /\ config \in ProtocolFeeConfigs
    /\ last = [op |-> "new", ok |-> TRUE, before |-> NewReserve, n |-> 0]
    /\ clock = 0
    /\ limiter = NoLimiter
    /\ accepted = <<>>
    /\ market = Idle
    /\ out = [fn |-> "none"]

CalculateProtocolLiquidationFee ==
    /\ out.fn = "none"
    /\ \E amount_liquidated \in ProtocolFeeAmounts, bonus_rate \in ProtocolFeeBonusRates :
          out' = [fn |-> "calculate_protocol_liquidation_fee",
                  amount_liquidated |-> amount_liquidated,
                  bonus_rate |-> bonus_rate,
                  r |-> calculate_protocol_liquidation_fee(config, amount_liquidated,
                                                           bonus_rate)]
    /\ UNCHANGED <<reserve, config, last, limiter, clock, accepted, market>>

NextProtocolFee == CalculateProtocolLiquidationFee

SpecProtocolFee == InitProtocolFee /\ [][NextProtocolFee]_vars

\* (amount_liquidated / bonus_rate) * protocol_liquidation_fee / 1000 in exact
\* arithmetic, rounded up to a whole number
ExactProtocolFee ==
    LET num == out.amount_liquidated * config.protocol_liquidation_fee * WAD
        den == 1000 * out.bonus_rate
    IN (num + den - 1) \div den

\* C24: for every amount_liquidated and every bonus_rate >= 1,
\* calculate_protocol_liquidation_fee succeeds and returns max(1, ceil((amount_liquidated
\* / bonus_rate) * protocol_liquidation_fee deca bps / 1000)), the quotient and the
\* product as Decimals; the result is at least 1, and it is within one of the same
\* expression in exact arithmetic, never above it.
C24_ProtocolFeeAtLeastOne ==
    (out.fn = "calculate_protocol_liquidation_fee" /\ out.bonus_rate >= WAD) =>
        /\ out.r.ok
        /\ out.r.v >= 1
        /\ out.r.v = Max(1, Ceil(DecMul(DecDiv(Dec(out.amount_liquidated),
                                               out.bonus_rate).v,
                                        FromDecaBps(config.protocol_liquidation_fee))))
        /\ out.r.v <= Max(1, ExactProtocolFee)
        /\ out.r.v >= Max(1, ExactProtocolFee - 1)

\* a fee of 1 was charged where the proportional fee rounds up to 0: nothing was
\* liquidated or the fee setting is 0
C24_Witness ==
    /\ out.fn = "calculate_protocol_liquidation_fee"
    /\ out.bonus_rate >= WAD
    /\ out.r.ok
    /\ out.r.v = 1
    /\ ExactProtocolFee = 0

\* the fee of the test: 20 deca bps of 105 liquidated at a bonus rate of 1.05 is 2
C24_TestCase ==
    /\ out.fn = "calculate_protocol_liquidation_fee"
    /\ out.amount_liquidated = 105
    /\ out.bonus_rate = FromPercent(105)
    /\ config.protocol_liquidation_fee = 20
    /\ out.r.ok
    /\ out.r.v = 2

----------------------------------------------------------------------------
(* accrue_interest on a reserve with a flat borrow rate: SpecAccrue *)

\* The config of the test: ReserveConfig::default() with the four borrow rates equal
FlatRateConfigs ==
    { [BaseConfig EXCEPT !.optimal_utilization_rate = 0,
                         !.max_utilization_rate = 0,
                         !.protocol_take_rate = 0,
                         !.min_borrow_rate = borrow_rate,
                         !.optimal_borrow_rate = borrow_rate,
                         !.max_borrow_rate = borrow_rate,
                         !.super_max_borrow_rate = borrow_rate] :
        borrow_rate \in {0, 1, 10, 100, 255} }

InitAccrue ==
    /\ \E borrowed_liquidity \in 0..MaxU64 :
          reserve = [NewReserve EXCEPT !.borrowed_amount_wads = Dec(borrowed_liquidity)]
    /\ config \in FlatRateConfigs
    /\ last = [op |-> "new", ok |-> TRUE, before |-> NewReserve, n |-> 0]
    /\ clock = 0
    /\ limiter = NoLimiter
    /\ accepted = <<>>
    /\ market = Idle
    /\ out = [fn |-> "none"]

ReserveAccrueInterest ==
    /\ out.fn = "none"
    /\ \E slots_elapsed \in 0..SLOTS_PER_YEAR :
          out' = [fn |-> "accrue_interest",
                  slots_elapsed |-> slots_elapsed,
                  r |-> accrue_interest(reserve, config, slots_elapsed)]
    /\ UNCHANGED <<reserve, config, last, limiter, clock, accepted, market>>

NextAccrue == ReserveAccrueInterest

SpecAccrue == InitAccrue /\ [][NextAccrue]_vars

----------------------------------------------------------------------------
(* The reserve under every operation but forgive_debt: SpecExchange *)

\* A reserve after deposit_liquidity(l1), a borrow of a and a half, deposit_liquidity(l2)
\* and a repay of p, in that order
lent(l1, a, l2, p) ==
    LET r1 == deposit_liquidity(NewReserve, l1)
        r2 == liquidity_borrow(r1.r, Dec(a) + HALF_WAD)
        r3 == deposit_liquidity(r2.r, l2)
        c == calculate_repay(p, r3.r.borrowed_amount_wads, FALSE)
        r4 == liquidity_repay(r3.r, c.repay_amount, c.settle_amount)
    IN Res(r1.ok /\ r2.ok /\ r3.ok /\ r4.ok, r4.r, 0)

\* The reserves those four operations leave when each of them succeeds
LentReserves ==
    { lent(q[1], q[2], q[3], q[4]).r :
        q \in { q \in (1..MaxAmount) \X (1..MaxAmount) \X (1..MaxAmount) \X (1..MaxAmount) :
                  lent(q[1], q[2], q[3], q[4]).ok } }

\* A new reserve, or one that has lent
InitExchange ==
    /\ reserve \in {NewReserve} \cup LentReserves
    /\ config \in ReserveConfigs
    /\ last = [op |-> "new", ok |-> TRUE, before |-> NewReserve, n |-> 0]
    /\ clock = 0
    /\ limiter = NoLimiter
    /\ accepted = <<>>
    /\ market = Idle
    /\ out = <<>>

NextExchange ==
    \/ DepositLiquidity
    \/ RedeemCollateral
    \/ BorrowLiquidity
    \/ RepayLiquidity
    \/ RedeemFees
    \/ RefreshReserve
    \/ Tick
    \/ Revert

SpecExchange == InitExchange /\ [][NextExchange]_vars

\* liquidity per collateral did not decrease from reserve a to reserve b:
\* total_supply / mint_total_supply compared by cross multiplication
RateNotDecreased(a, b) ==
    total_supply(b).v * a.mint_total_supply >= total_supply(a).v * b.mint_total_supply

\* a successful operation between two states with collateral outstanding
ExchangeStep ==
    /\ last'.ok
    /\ last'.op \in {"deposit_liquidity", "redeem_collateral", "borrow", "repay",
                     "accrue_interest", "redeem_fees"}
    /\ reserve.mint_total_supply > 0
    /\ reserve'.mint_total_supply > 0
    /\ total_supply(reserve).ok
    /\ total_supply(reserve').ok

\* C28: over successful deposit_liquidity, redeem_collateral, borrow, repay,
\* accrue_interest and redeem_fees, with no forgive_debt, between states with
\* mint_total_supply > 0 the liquidity per collateral, total_supply /
\* mint_total_supply, never decreases.
C28_ExchangeRateNeverDecreases ==
    [][ExchangeStep => RateNotDecreased(reserve, reserve')]_vars

====
